---- MODULE Spec2Model ----
(***************************************************************************)
(* A model of the core of gorb: the Context (in-memory map of virtual      *)
(* services and backends, programmed into the kernel IPVS table), the      *)
(* Pulse notification loop with its weight stash, and the Store            *)
(* reconciliation (Synchronize).                                           *)
(*                                                                         *)
(* The IPVS driver, DNS resolution and the Pulse probes are external: a    *)
(* driver call succeeds or fails by a choice of the environment (the set F *)
(* of the indices of the calls of one operation that fail), and the kernel *)
(* table records what the successful calls programmed.                     *)
(***************************************************************************)
EXTENDS Integers, Sequences, FiniteSets, TLC

(***************************************************************************)
(* Bounds of the model.                                                    *)
(***************************************************************************)
\* Health values are the rationals 0/HealthScale .. HealthScale/HealthScale.
HealthScale == 2
\* The MaxWeight configured for the services of the model.
MaxW == 3
\* Driver calls numbered above MaxFail in one operation always succeed.
MaxFail == 4

VsIDs == {"vsA", "vsB"}
RsIDs == {"rs1", "rs2"}
Sources == VsIDs \X RsIDs

(***************************************************************************)
(* Errors (part_001 lines 53-56, options.go lines 36-40).                  *)
(***************************************************************************)
ErrIpvsSyscallFailed == "ErrIpvsSyscallFailed"
ErrObjectExists == "ErrObjectExists"
ErrObjectNotFound == "ErrObjectNotFound"
ErrIncompatibleAFs == "ErrIncompatibleAFs"
ErrMissingEndpoint == "ErrMissingEndpoint"
ErrUnknownMethod == "ErrUnknownMethod"
ErrUnknownProtocol == "ErrUnknownProtocol"
ErrUnknownFlag == "ErrUnknownFlag"
ErrUnknownFallbackFlag == "ErrUnknownFallbackFlag"
ErrResolve == "ErrResolve"
ErrPulse == "ErrPulse"
NoErr == "nil"

\* fmt.Errorf("%w vsID: %s", err, vsID) and fmt.Errorf("%w rsID: %s", err,
\* rsID): a new error value that wraps err.
Errorf(err, what) == err \o " " \o what

\* errors.Is(err, target): err is target or wraps it.
Is(err, target) == err = target \/ err \in {Errorf(target, what) : what \in {"vsID", "rsID"}}

(***************************************************************************)
(* Finite maps (Go maps) as functions with a varying domain.               *)
(***************************************************************************)
EmptyMap == [x \in {} |-> 0]
Put(f, k, v) == [x \in (DOMAIN f) \cup {k} |-> IF x = k THEN v ELSE f[x]]
Del(f, k) == [x \in (DOMAIN f) \ {k} |-> f[x]]

\* All orders in which a range loop may produce the keys of a map.
Orders(S) == {s \in [1..Cardinality(S) -> S] : \A i, j \in 1..Cardinality(S) : i # j => s[i] # s[j]}
\* The keys of S in the order `ord` lists them.
RECURSIVE Restrict(_, _)
Restrict(ord, S) ==
    IF ord = <<>> THEN <<>>
    ELSE IF Head(ord) \in S THEN <<Head(ord)>> \o Restrict(Tail(ord), S)
    ELSE Restrict(Tail(ord), S)

(***************************************************************************)
(* Option tables and string conversions.                                   *)
(***************************************************************************)
schedulerFlags ==
    [f \in {"sh-fallback", "sh-port", "flag-1", "flag-2", "flag-3"} |->
        CASE f = "sh-fallback" -> {"SCHED1"}
          [] f = "sh-port" -> {"SCHED2"}
          [] f = "flag-1" -> {"SCHED1"}
          [] f = "flag-2" -> {"SCHED2"}
          [] f = "flag-3" -> {"SCHED3"}]

Default == 0
ZeroToOne == 1
fallbackFlags == [f \in {"fb-default", "fb-zero-to-one"} |-> IF f = "fb-default" THEN Default ELSE ZeroToOne]

\* strings.Split(s, "|") on the option strings of the model.
Split(s) ==
    CASE s = "sh-fallback|sh-port" -> <<"sh-fallback", "sh-port">>
      [] s = "sh-port|sh-fallback" -> <<"sh-port", "sh-fallback">>
      [] s = "flag-1|flag-2|flag-3" -> <<"flag-1", "flag-2", "flag-3">>
      [] s = "sh-port|bogus" -> <<"sh-port", "bogus">>
      [] s = "fb-default|fb-zero-to-one" -> <<"fb-default", "fb-zero-to-one">>
      [] OTHER -> <<s>>

\* strings.ToLower on the option strings of the model.
ToLower(s) ==
    CASE s = "TCP" -> "tcp"
      [] s = "UDP" -> "udp"
      [] s = "NAT" -> "nat"
      [] s = "DR" -> "dr"
      [] OTHER -> s

\* net.ResolveIPAddr: the hosts of the model resolve to themselves, except
\* the one that does not resolve.
Resolvable(h) == h # "nohost"
\* A util.AddrFamily that takes every address for an IPv4 one.
AddrFamilyV4(ip) == "AF_INET"
\* util.AddrFamily of a resolved address.
AddrFamily(ip) == IF ip \in {"vip6", "ip6"} THEN "AF_INET6" ELSE "AF_INET"

\* The daemon's default endpoint (ContextOptions.Endpoints[0]).
endpoint == "vip1"

(***************************************************************************)
(* ServiceOptions and BackendOptions.                                      *)
(***************************************************************************)
\* Options as a caller or the store supplies them: the derived fields are
\* zero values.
SvcOpts(h, fb, mw, p) ==
    [Host |-> h, Port |-> 80, Protocol |-> "tcp", LbMethod |-> "wrr", ShFlags |-> "",
     Persistent |-> FALSE, Fallback |-> fb, FwdMethod |-> "nat", Pulse |-> p,
     MaxWeight |-> mw, host |-> "", delIfAddr |-> FALSE, protocol |-> "", methodID |-> ""]

\* BackendOptions decoded from JSON or YAML: weight is unexported, so it is
\* the zero value.
BOpts(h, p) == [Host |-> h, Port |-> p, host |-> "", weight |-> 0]

Result(e, o) == [err |-> e, o |-> o]

\* ServiceOptions.Validate
Validate(o, defaultHost) ==
    IF o.Port = 0 THEN Result(ErrMissingEndpoint, o)
    ELSE IF o.Host # "" /\ ~Resolvable(o.Host) THEN Result(ErrResolve, o)
    ELSE IF o.Host = "" /\ defaultHost = "" THEN Result(ErrMissingEndpoint, o)
    ELSE
      LET o1 == [o EXCEPT !.host = IF o.Host # "" THEN o.Host ELSE defaultHost,
                          !.Protocol = ToLower(IF @ = "" THEN "tcp" ELSE @)]
      IN
      IF o1.Protocol \notin {"tcp", "udp"} THEN Result(ErrUnknownProtocol, o1)
      ELSE
        LET o2 == [o1 EXCEPT !.protocol = IF o1.Protocol = "tcp" THEN "IPPROTO_TCP" ELSE "IPPROTO_UDP"]
            toks == Split(o2.ShFlags)
            fbs == Split(o2.Fallback)
        IN
        IF o2.ShFlags # "" /\ \E i \in 1..Len(toks) : toks[i] \notin DOMAIN schedulerFlags
        THEN Result(ErrUnknownFlag, o2)
        ELSE IF o2.Fallback # "" /\ \E i \in 1..Len(fbs) : fbs[i] \notin DOMAIN fallbackFlags
        THEN Result(ErrUnknownFallbackFlag, o2)
        ELSE
          LET o3 == [o2 EXCEPT !.Fallback = IF @ = "" THEN "fb-default" ELSE @,
                               !.LbMethod = IF @ = "" THEN "wrr" ELSE @,
                               !.MaxWeight = IF @ <= 0 THEN 100 ELSE @,
                               !.FwdMethod = ToLower(IF @ = "" THEN "nat" ELSE @)]
          IN
          IF o3.FwdMethod \notin {"dr", "nat", "tunnel", "ipip"} THEN Result(ErrUnknownMethod, o3)
          ELSE Result(NoErr,
                 [o3 EXCEPT !.methodID = CASE o3.FwdMethod = "dr" -> "IPVS_DIRECTROUTE"
                                           [] o3.FwdMethod = "nat" -> "IPVS_MASQUERADING"
                                           [] OTHER -> "IPVS_TUNNELING",
                            !.Pulse = IF @ = "nil" THEN "default" ELSE @])

\* BackendOptions.Validate
BackendValidate(o) ==
    IF o.Host = "" \/ o.Port = 0 THEN Result(ErrMissingEndpoint, o)
    ELSE IF ~Resolvable(o.Host) THEN Result(ErrResolve, o)
    ELSE Result(NoErr, [o EXCEPT !.host = o.Host])

\* A ServiceOptions.CompareStoreOptions that compares every field, the
\* derived ones included.
CompareAllOptions(o, options) == o = options

\* ServiceOptions.CompareStoreOptions
CompareStoreOptions(o, options) ==
    /\ o.Host = options.Host
    /\ o.Port = options.Port
    /\ o.Protocol = options.Protocol
    /\ o.ShFlags = options.ShFlags
    /\ o.LbMethod = options.LbMethod
    /\ o.Persistent = options.Persistent
    /\ o.Fallback = options.Fallback
    /\ o.FwdMethod = options.FwdMethod
    /\ o.MaxWeight = options.MaxWeight

\* A BackendOptions.CompareStoreOptions that compares every field, the
\* weight included.
BackendCompareAllOptions(o, options) == o = options

\* BackendOptions.CompareStoreOptions
BackendCompareStoreOptions(o, options) ==
    /\ o.Host = options.Host
    /\ o.Port = options.Port

\* pulse.New: constructing the probe from the service's Pulse options fails
\* for options the driver cannot use (an unparsable path, a bad method).
pulseNew(popts) == IF popts = "bad" THEN ErrPulse ELSE NoErr

\* The zero value of pulse.Metrics.
ZeroMetrics == [Status |-> "Up", Health |-> 0]

(***************************************************************************)
(* The state.                                                              *)
(***************************************************************************)
VARIABLES
    services,   \* Context.services: vsID -> Service (vsID, options, svc, backends)
    ipvs,       \* the kernel table: (VIP, port, proto) -> scheduler, flags, dests
    probes,     \* (vsID, rsID) -> number of running Pulse probe tasks
    stash,      \* the stash of Context.run: (vsID, rsID) -> weight
    pc,         \* where the notification loop is in processPulseUpdate
    u,          \* the update the notification loop is processing
    backendWeight, \* the weight processPulseUpdate computed for a Down update
    calls,      \* the driver calls of the last operation, in order, with their outcome
    ret,        \* the last operation and what it returned
    events,     \* the probe stops, Disco and netlink calls of the last operation, in order
    vipInterface, \* Context.vipInterface is set (ContextOptions.VipInterface)
    link,       \* the addresses of the VIP interface
    stopCh,     \* Context.stopCh is closed
    sending,    \* the sources whose probe task is blocked in its send to Context.pulseCh
    ranging,    \* Exporter.collect: whether its range over ctx.services runs, and the keys it produced
    trail       \* per source, how far it is through create, Down, Up at full health

vars == <<services, ipvs, probes, stash, pc, u, backendWeight, calls, ret, events, vipInterface, link,
          stopCh, sending, ranging, trail>>

(***************************************************************************)
(* The IPVS driver.  A mutator works on a record c of the Context's state  *)
(* (services, ipvs, probes) and appends each driver call to c.calls; F is  *)
(* the set of the indices of the calls of this operation that fail.        *)
(***************************************************************************)
NoSvc == <<"", 0, "">>
NoDest == <<"", 0>>
SvcKey(o) == <<o.host, o.Port, o.protocol>>
DestKey(o) == <<o.host, o.Port>>

\* Does the environment let the next driver call of the operation through?
NextCallOk(c, F) == (Len(c.calls) + 1) \notin F

Called(c, fn, svc, dest, weight, ok) ==
    [c EXCEPT !.calls = Append(@, [fn |-> fn, svc |-> svc, dest |-> dest, weight |-> weight, ok |-> ok])]

\* Did the last driver call of c succeed?
Ok(c) == c.calls[Len(c.calls)].ok

\* Ipvs.AddService and Ipvs.AddServiceWithFlags: the kernel refuses a
\* service it already has.
AddService(c, svc, ok) ==
    LET fn == IF svc.Flags # {} THEN "AddServiceWithFlags" ELSE "AddService"
        k == <<svc.VIP, svc.Port, svc.Proto>>
        done == ok /\ k \notin DOMAIN c.ipvs
        c1 == Called(c, fn, k, NoDest, 0, done)
    IN IF done
       THEN [c1 EXCEPT !.ipvs = Put(@, k, [Sched |-> svc.Sched, Flags |-> svc.Flags, dests |-> EmptyMap])]
       ELSE c1

\* Ipvs.DelService: the kernel drops the service with its destinations, and
\* refuses when it has no such service.
DelService(c, k, ok) ==
    LET done == ok /\ k \in DOMAIN c.ipvs
        c1 == Called(c, "DelService", k, NoDest, 0, done)
    IN IF done THEN [c1 EXCEPT !.ipvs = Del(@, k)] ELSE c1

\* Ipvs.AddDestPort: refused without the service or with the destination
\* already there.
AddDestPort(c, k, d, weight, fwd, ok) ==
    LET done == ok /\ k \in DOMAIN c.ipvs /\ d \notin DOMAIN c.ipvs[k].dests
        c1 == Called(c, "AddDestPort", k, d, weight, done)
    IN IF done
       THEN [c1 EXCEPT !.ipvs[k].dests = Put(@, d, [weight |-> weight, fwd |-> fwd])]
       ELSE c1

\* Ipvs.UpdateDestPort: refused without the service or the destination.
UpdateDestPort(c, k, d, weight, fwd, ok) ==
    LET done == ok /\ k \in DOMAIN c.ipvs /\ d \in DOMAIN c.ipvs[k].dests
        c1 == Called(c, "UpdateDestPort", k, d, weight, done)
    IN IF done
       THEN [c1 EXCEPT !.ipvs[k].dests[d] = [weight |-> weight, fwd |-> fwd]]
       ELSE c1

\* Ipvs.DelDestPort: refused without the service or the destination.
DelDestPort(c, k, d, ok) ==
    LET done == ok /\ k \in DOMAIN c.ipvs /\ d \in DOMAIN c.ipvs[k].dests
        c1 == Called(c, "DelDestPort", k, d, 0, done)
    IN IF done
       THEN [c1 EXCEPT !.ipvs[k].dests = Del(@, d)]
       ELSE c1

\* A GetPoolForService that finds the pool of the service without its
\* destinations.
GetPoolForServiceNoDests(c, svc, F) ==
    LET ok == NextCallOk(c, F)
        k == <<svc.VIP, svc.Port, svc.Proto>>
        c1 == Called(c, "GetPools", NoSvc, NoDest, 0, ok)
    IN IF ~ok THEN [c |-> c1, err |-> ErrIpvsSyscallFailed, Dests |-> {}]
       ELSE IF k \in DOMAIN c.ipvs THEN [c |-> c1, err |-> NoErr, Dests |-> {}]
       ELSE [c |-> c1, err |-> "service doesn't exist", Dests |-> {}]

\* Context.GetPoolForService: GetPools, then the pool whose service IsEqual.
GetPoolForService(c, svc, F) ==
    LET ok == NextCallOk(c, F)
        k == <<svc.VIP, svc.Port, svc.Proto>>
        c1 == Called(c, "GetPools", NoSvc, NoDest, 0, ok)
    IN IF ~ok THEN [c |-> c1, err |-> ErrIpvsSyscallFailed, Dests |-> {}]
       ELSE IF k \in DOMAIN c.ipvs THEN [c |-> c1, err |-> NoErr, Dests |-> DOMAIN c.ipvs[k].dests]
       ELSE [c |-> c1, err |-> "service doesn't exist", Dests |-> {}]

(***************************************************************************)
(* Service and Backend.                                                    *)
(***************************************************************************)
Out(c, e) == [c |-> c, err |-> e]

\* Backend.UpdateWeight: the backend with the new weight (the old one is
\* what updateBackend returns).
UpdateWeight(rs, weight) == [rs EXCEPT !.options.weight = weight]

\* Service.CreateBackend
ServiceCreateBackend(c, vsID, rsID, opts) ==
    LET v == BackendValidate(opts)
        vs == c.services[vsID]
    IN IF v.err # NoErr THEN Out(c, v.err)
       ELSE IF pulseNew(vs.options.Pulse) # NoErr THEN Out(c, pulseNew(vs.options.Pulse))
       ELSE Out([c EXCEPT !.services[vsID].backends =
                    Put(@, rsID, [options |-> v.o, metrics |-> ZeroMetrics])], NoErr)

\* Is the backend src reachable through the services map svcs?
Live(svcs, src) == src[1] \in DOMAIN svcs /\ src[2] \in DOMAIN svcs[src[1]].backends

\* An event of the operation: a probe stop or a Disco call for src (a
\* backend, or a service when the rsID is empty).  The event records whether
\* src is in the Context's map at that moment, and how many driver calls the
\* operation has made before it.
Event(c, ev, src, reachable) ==
    [c EXCEPT !.events = Append(@, [ev |-> ev, src |-> src, reachable |-> reachable,
                                    calls |-> Len(c.calls), ok |-> TRUE, arg |-> <<>>])]

\* The Disco and netlink calls of an operation fail by a choice of the
\* environment, as the driver calls do: the set F holds 0 when the Disco
\* calls of the operation fail and -1 when its netlink calls do.
DiscoFails(F) == 0 \in F
NetlinkFails(F) == -1 \in F

\* An event of a call that returned an error, which the caller logs.
EventOf(c, ev, src, reachable, ok) ==
    [c EXCEPT !.events = Append(@, [ev |-> ev, src |-> src, reachable |-> reachable,
                                    calls |-> Len(c.calls), ok |-> ok, arg |-> <<>>])]

\* Backend.Cleanup / monitor.Stop: one probe task of the source stops.
Stop(c, src) ==
    Event([c EXCEPT !.probes[src] = IF @ > 0 THEN @ - 1 ELSE 0], "Stop", src, Live(c.services, src))

\* Disco.Expose and Disco.Remove: an error is logged and dropped.
\* A Disco.Expose whose failure takes the service out of the map again.
DiscoExposeUndoes(c, vsID, F) ==
    IF DiscoFails(F) THEN [c EXCEPT !.services = Del(@, vsID)]
    ELSE Event(c, "Expose", <<vsID, "">>, vsID \in DOMAIN c.services)
\* Disco.Expose(vsID, serviceOptions.host.String(), serviceOptions.Port),
\* called once the service is in ctx.services.
DiscoExpose(c, vsID, F) ==
    [c EXCEPT !.events = Append(@, [ev |-> "Expose", src |-> <<vsID, "">>,
                                    reachable |-> vsID \in DOMAIN c.services,
                                    calls |-> Len(c.calls), ok |-> ~DiscoFails(F),
                                    arg |-> <<c.services[vsID].options.host,
                                              c.services[vsID].options.Port>>])]
\* A Disco.Remove that is never called.
DiscoRemoveNever(c, vsID, F) == c
DiscoRemove(c, vsID, F) ==
    EventOf(c, "Remove", <<vsID, "">>, vsID \in DOMAIN c.services, ~DiscoFails(F))

\* netlink.AddrAdd of the VIP in createService, when the Context has a VIP
\* interface: the kernel refuses an address the link has.  o is the options
\* with delIfAddr set when the address was added.
vipAdd(c, vsID, serviceOptions, F) ==
    IF ~c.vipInterface THEN [c |-> c, o |-> serviceOptions]
    ELSE IF serviceOptions.host \in c.link \/ NetlinkFails(F)
    THEN [c |-> EventOf(c, "AddrAdd", <<vsID, "">>, vsID \in DOMAIN c.services, FALSE),
          o |-> serviceOptions]
    ELSE [c |-> Event([c EXCEPT !.link = @ \cup {serviceOptions.host}],
                      "AddrAdd", <<vsID, "">>, vsID \in DOMAIN c.services),
          o |-> [serviceOptions EXCEPT !.delIfAddr = TRUE]]

\* A removeService that deletes the VIP of every service from the link.
vipDelAlways(c, vsID, options, F) ==
    IF ~c.vipInterface THEN c
    ELSE IF options.host \notin c.link \/ NetlinkFails(F)
    THEN EventOf(c, "AddrDel", <<vsID, "">>, vsID \in DOMAIN c.services, FALSE)
    ELSE Event([c EXCEPT !.link = @ \ {options.host}],
               "AddrDel", <<vsID, "">>, vsID \in DOMAIN c.services)

\* netlink.AddrDel of the VIP in removeService, for a service whose
\* createService added the address: the kernel refuses an address the link
\* does not have.
vipDel(c, vsID, options, F) ==
    IF ~(c.vipInterface /\ options.delIfAddr) THEN c
    ELSE IF options.host \notin c.link \/ NetlinkFails(F)
    THEN EventOf(c, "AddrDel", <<vsID, "">>, vsID \in DOMAIN c.services, FALSE)
    ELSE Event([c EXCEPT !.link = @ \ {options.host}],
               "AddrDel", <<vsID, "">>, vsID \in DOMAIN c.services)

\* Service.RemoveBackend
ServiceRemoveBackend(c, vsID, rsID) ==
    IF rsID \notin DOMAIN c.services[vsID].backends THEN Out(c, ErrObjectNotFound)
    ELSE Out([Stop(c, <<vsID, rsID>>) EXCEPT !.services[vsID].backends = Del(@, rsID)], NoErr)

\* A Service.Cleanup that leaves the probes of the backends running.
CleanupKeepsProbes(c, vsID, ids) == c

\* Service.Cleanup of the service vs, which removeService took out of the map.
RECURSIVE Cleanup(_, _, _)
Cleanup(c, vsID, ids) ==
    IF ids = {} THEN c
    ELSE LET rsID == CHOOSE r \in ids : TRUE
         IN Cleanup(Stop(c, <<vsID, rsID>>), vsID, ids \ {rsID})

\* Service.CalcServiceStat: Health is the mean of the backends' healths
\* (a rational, as numerator over denominator), 0 without backends.
RECURSIVE SumHealth(_, _)
SumHealth(backends, ids) ==
    IF ids = {} THEN 0
    ELSE LET r == CHOOSE x \in ids : TRUE
         IN backends[r].metrics.Health + SumHealth(backends, ids \ {r})

\* A CalcServiceStat that reports the health of one backend as the service's.
CalcServiceStatOfOne(vs) ==
    LET n == Cardinality(DOMAIN vs.backends)
    IN [Options |-> vs.options,
        HealthNum |-> IF n # 0 THEN vs.backends[CHOOSE r \in DOMAIN vs.backends : TRUE].metrics.Health ELSE 0,
        HealthDen |-> IF n # 0 THEN HealthScale ELSE 1,
        Backends |-> DOMAIN vs.backends,
        BackendsCount |-> n,
        FallBack |-> vs.options.Fallback]

CalcServiceStat(vs) ==
    LET n == Cardinality(DOMAIN vs.backends)
    IN [Options |-> vs.options,
        HealthNum |-> IF n # 0 THEN SumHealth(vs.backends, DOMAIN vs.backends) ELSE 0,
        HealthDen |-> IF n # 0 THEN n * HealthScale ELSE 1,
        Backends |-> DOMAIN vs.backends,
        BackendsCount |-> n,
        FallBack |-> vs.options.Fallback]

(***************************************************************************)
(* The Context's mutators, as functions from the state c before to the     *)
(* state after and the error returned.                                     *)
(***************************************************************************)
\* Context.createBackend
createBackend(c, vsID, rsID, opts, F) ==
    IF vsID \notin DOMAIN c.services THEN Out(c, Errorf(ErrObjectNotFound, "vsID"))
    ELSE
      LET vs == c.services[vsID]
          v == BackendValidate(opts)
      IN
      IF rsID \in DOMAIN vs.backends THEN Out(c, Errorf(ErrObjectExists, "rsID"))
      ELSE IF v.err # NoErr THEN Out(c, v.err)
      ELSE IF AddrFamily(v.o.host) # AddrFamily(vs.options.host) THEN Out(c, ErrIncompatibleAFs)
      ELSE
        LET pool == GetPoolForService(c, vs.svc, F)
            skipCreation == DestKey(v.o) \in pool.Dests
            c1 == IF skipCreation THEN pool.c
                  ELSE AddDestPort(pool.c, SvcKey(vs.options), DestKey(v.o),
                                   vs.options.MaxWeight, vs.options.methodID,
                                   NextCallOk(pool.c, F))
            r == ServiceCreateBackend(c1, vsID, rsID, v.o)
        IN
        IF pool.err # NoErr THEN Out(pool.c, ErrIpvsSyscallFailed)
        ELSE IF ~skipCreation /\ ~Ok(c1) THEN Out(c1, ErrIpvsSyscallFailed)
        ELSE IF r.err # NoErr THEN r
        ELSE Out([r.c EXCEPT !.probes[<<vsID, rsID>>] = @ + 1], NoErr)

\* The "init backends" loop of createService, over the bundled backends in
\* the order ids: r is what createBackend returned for the first of them.
RECURSIVE initBackends(_, _, _, _, _)
\* An "init backends" loop that goes on after a backend failed, and returns
\* the first error.
initBackendsGoesOn(r, vsID, ids, ServiceBackends, F) ==
    IF r.err # NoErr THEN Out(initBackends(r.c, vsID, Tail(ids), ServiceBackends, F).c, r.err)
    ELSE initBackends(r.c, vsID, Tail(ids), ServiceBackends, F)

initBackendsNext(r, vsID, ids, ServiceBackends, F) ==
    IF r.err # NoErr THEN r
    ELSE initBackends(r.c, vsID, Tail(ids), ServiceBackends, F)

initBackends(c, vsID, ids, ServiceBackends, F) ==
    IF ids = <<>> THEN Out(c, NoErr)
    ELSE initBackendsNext(createBackend(c, vsID, Head(ids), ServiceBackends[Head(ids)], F),
                          vsID, ids, ServiceBackends, F)

\* A fold of the scheduler flags that keeps the flag of the last token only.
FoldFlagsOfLast(toks) ==
    IF toks = <<>> THEN {}
    ELSE IF toks[Len(toks)] \in DOMAIN schedulerFlags THEN schedulerFlags[toks[Len(toks)]] ELSE {}

\* The scheduler flags createService folds from ShFlags.
RECURSIVE FoldFlags(_)
FoldFlags(toks) ==
    IF toks = <<>> THEN {}
    ELSE (IF Head(toks) \in DOMAIN schedulerFlags THEN schedulerFlags[Head(toks)] ELSE {})
         \cup FoldFlags(Tail(toks))

\* The gnl2go.Service createService builds from the validated options.
ServiceOf(serviceOptions) ==
    [Proto |-> serviceOptions.protocol, VIP |-> serviceOptions.host,
     Port |-> serviceOptions.Port, Sched |-> serviceOptions.LbMethod,
     Flags |-> FoldFlags(Split(serviceOptions.ShFlags))]

\* createService from the registration in ctx.services on: c1 is the state
\* after the driver calls, and existed says that the kernel had the service
\* (then AddService was not called).
createServiceInMap(c1, existed, vsID, serviceOptions, ServiceBackends, rsOrd, F) ==
    IF ~existed /\ ~Ok(c1) THEN Out(c1, ErrIpvsSyscallFailed)
    ELSE initBackends(DiscoExpose([c1 EXCEPT !.services =
                          Put(@, vsID, [vsID |-> vsID, options |-> serviceOptions,
                                        svc |-> ServiceOf(serviceOptions), backends |-> EmptyMap])], vsID, F),
                      vsID, Restrict(rsOrd, DOMAIN ServiceBackends), ServiceBackends, F)

\* A createService that adds the service whatever GetPoolForService answered.
createServiceAlwaysAdds(pool, vsID, serviceOptions, ServiceBackends, rsOrd, F) ==
    createServiceInMap(AddService(pool.c, ServiceOf(serviceOptions), NextCallOk(pool.c, F)),
                       FALSE, vsID, serviceOptions, ServiceBackends, rsOrd, F)

\* createService from the answer pool of GetPoolForService on.
createServiceInKernel(pool, vsID, serviceOptions, ServiceBackends, rsOrd, F) ==
    IF pool.err = NoErr
    THEN createServiceInMap(pool.c, TRUE, vsID, serviceOptions, ServiceBackends, rsOrd, F)
    ELSE createServiceInMap(AddService(pool.c, ServiceOf(serviceOptions), NextCallOk(pool.c, F)),
                            FALSE, vsID, serviceOptions, ServiceBackends, rsOrd, F)

\* createService from the answer a of the VIP step on.
createServiceWithVip(a, vsID, ServiceBackends, rsOrd, F) ==
    createServiceInKernel(GetPoolForService(a.c, ServiceOf(a.o), F),
                          vsID, a.o, ServiceBackends, rsOrd, F)

\* A createService that does not look for the vsID in ctx.services.
createServiceOverExisting(c, v, vsID, ServiceBackends, rsOrd, F) ==
    IF v.err # NoErr THEN Out(c, v.err)
    ELSE createServiceWithVip(vipAdd(c, vsID, v.o, F), vsID, ServiceBackends, rsOrd, F)

\* createService from the result v of Validate on.
createServiceValidated(c, v, vsID, ServiceBackends, rsOrd, F) ==
    IF v.err # NoErr THEN Out(c, v.err)
    ELSE IF vsID \in DOMAIN c.services THEN Out(c, ErrObjectExists)
    ELSE createServiceWithVip(vipAdd(c, vsID, v.o, F), vsID, ServiceBackends, rsOrd, F)

\* Context.createService; rsOrd is the order in which the range over the
\* bundled backends produces them.
createService(c, vsID, serviceConfig, rsOrd, F) ==
    createServiceValidated(c, Validate(serviceConfig.ServiceOptions, endpoint),
                           vsID, serviceConfig.ServiceBackends, rsOrd, F)

\* An updateBackend that returns the weight it has just set.
updateBackendReturnsNew(c, vsID, rsID, weight, F) ==
    IF vsID \notin DOMAIN c.services THEN [c |-> c, err |-> Errorf(ErrObjectNotFound, "vsID"), prev |-> 0]
    ELSE IF rsID \notin DOMAIN c.services[vsID].backends THEN [c |-> c, err |-> ErrObjectNotFound, prev |-> 0]
    ELSE
      LET vs == c.services[vsID]
          rs == vs.backends[rsID]
          c1 == UpdateDestPort(c, SvcKey(vs.options), DestKey(rs.options), weight,
                               vs.options.methodID, NextCallOk(c, F))
      IN
      IF ~Ok(c1) THEN [c |-> c1, err |-> ErrIpvsSyscallFailed, prev |-> 0]
      ELSE [c |-> [c1 EXCEPT !.services[vsID].backends[rsID] = UpdateWeight(rs, weight)],
            err |-> NoErr, prev |-> weight]

\* An updateBackend with the store write that Context.updateBackend has
\* commented out.
updateBackendWritesStore(c, vsID, rsID, weight, F) ==
    IF vsID \notin DOMAIN c.services THEN [c |-> c, err |-> Errorf(ErrObjectNotFound, "vsID"), prev |-> 0]
    ELSE IF rsID \notin DOMAIN c.services[vsID].backends THEN [c |-> c, err |-> ErrObjectNotFound, prev |-> 0]
    ELSE
      LET vs == c.services[vsID]
          rs == vs.backends[rsID]
          c1 == UpdateDestPort(c, SvcKey(vs.options), DestKey(rs.options), weight,
                               vs.options.methodID, NextCallOk(c, F))
      IN
      IF ~Ok(c1) THEN [c |-> c1, err |-> ErrIpvsSyscallFailed, prev |-> 0]
      ELSE [c |-> Event([c1 EXCEPT !.services[vsID].backends[rsID] = UpdateWeight(rs, weight)],
                        "Store.UpdateBackend", <<vsID, rsID>>, TRUE),
            err |-> NoErr, prev |-> rs.options.weight]

\* Context.updateBackend; prev is the weight it returns.
updateBackend(c, vsID, rsID, weight, F) ==
    IF vsID \notin DOMAIN c.services THEN [c |-> c, err |-> Errorf(ErrObjectNotFound, "vsID"), prev |-> 0]
    ELSE IF rsID \notin DOMAIN c.services[vsID].backends THEN [c |-> c, err |-> ErrObjectNotFound, prev |-> 0]
    ELSE
      LET vs == c.services[vsID]
          rs == vs.backends[rsID]
          c1 == UpdateDestPort(c, SvcKey(vs.options), DestKey(rs.options), weight,
                               vs.options.methodID, NextCallOk(c, F))
      IN
      IF ~Ok(c1) THEN [c |-> c1, err |-> ErrIpvsSyscallFailed, prev |-> 0]
      ELSE [c |-> [c1 EXCEPT !.services[vsID].backends[rsID] = UpdateWeight(rs, weight)],
            err |-> NoErr, prev |-> rs.options.weight]

\* A removeService that drops the entry whatever DelService answered.
removeServiceAnyway(c, vsID, F) ==
    IF vsID \notin DOMAIN c.services THEN Out(c, Errorf(ErrObjectNotFound, "vsID"))
    ELSE
      LET vs == c.services[vsID]
          c1 == DelService(vipDel(c, vsID, vs.options, F), SvcKey(vs.options), NextCallOk(c, F))
      IN Out(DiscoRemove(Cleanup([c1 EXCEPT !.services = Del(@, vsID)], vsID, DOMAIN vs.backends), vsID, F),
             IF Ok(c1) THEN NoErr ELSE ErrIpvsSyscallFailed)

\* Context.removeService
removeService(c, vsID, F) ==
    IF vsID \notin DOMAIN c.services THEN Out(c, Errorf(ErrObjectNotFound, "vsID"))
    ELSE
      LET vs == c.services[vsID]
          c1 == DelService(vipDel(c, vsID, vs.options, F), SvcKey(vs.options), NextCallOk(c, F))
      IN
      IF ~Ok(c1) THEN Out(c1, ErrIpvsSyscallFailed)
      ELSE Out(DiscoRemove(Cleanup([c1 EXCEPT !.services = Del(@, vsID)], vsID, DOMAIN vs.backends), vsID, F),
               NoErr)

\* Context.removeBackend
removeBackend(c, vsID, rsID, F) ==
    IF vsID \notin DOMAIN c.services THEN Out(c, Errorf(ErrObjectNotFound, "vsID"))
    ELSE IF rsID \notin DOMAIN c.services[vsID].backends THEN Out(c, ErrObjectNotFound)
    ELSE
      LET vs == c.services[vsID]
          rs == vs.backends[rsID]
          c1 == DelDestPort(c, SvcKey(vs.options), DestKey(rs.options), NextCallOk(c, F))
      IN
      IF ~Ok(c1) THEN Out(c1, ErrIpvsSyscallFailed)
      ELSE ServiceRemoveBackend(c1, vsID, rsID)

(***************************************************************************)
(* Store reconciliation.                                                   *)
(***************************************************************************)
\* Store.getStoreServices: every listed entry with service options is passed
\* through Validate(nil), whose error is dropped.
getStoreServices(content) ==
    [vsID \in DOMAIN content |->
        [ServiceOptions |-> Validate(content[vsID].ServiceOptions, "").o,
         ServiceBackends |-> content[vsID].ServiceBackends]]

SyncOut(c, e, store) == [c |-> c, err |-> e, store |-> store]

\* The range over service.backends in Synchronize.  ids are the backends the
\* range still produces, store is what is left of storeService.ServiceBackends.
\* A backend that is removed and created again is an entry created during
\* the iteration: Go leaves open whether the range produces it (revisit) or
\* skips it, and the runtime produces it when the entry lands in a slot of
\* the map the iterator has not passed yet.
RECURSIVE syncBackends(_, _, _, _, _, _)
\* "backend not found in store": rm is what removeBackend returned.
syncBackendGone(rm, vsID, ids, store, revisit, F) ==
    IF rm.err # NoErr THEN SyncOut(rm.c, rm.err, store)
    ELSE syncBackends(rm.c, vsID, Tail(ids), store, revisit, F)

\* "backend is outdated", after createBackend returned cr.
syncBackendCreated(cr, vsID, ids, store, revisit, F) ==
    IF cr.err # NoErr THEN SyncOut(cr.c, cr.err, store)
    ELSE syncBackends(cr.c, vsID, Tail(ids) \o (IF revisit THEN <<Head(ids)>> ELSE <<>>),
                      Del(store, Head(ids)), revisit, F)

\* "backend is outdated", after removeBackend returned rm.
syncBackendOutdated(rm, vsID, ids, store, revisit, F) ==
    IF rm.err # NoErr THEN SyncOut(rm.c, rm.err, store)
    ELSE syncBackendCreated(createBackend(rm.c, vsID, Head(ids), store[Head(ids)], F),
                            vsID, ids, store, revisit, F)

syncBackends(c, vsID, ids, store, revisit, F) ==
    IF ids = <<>> THEN SyncOut(c, NoErr, store)
    ELSE IF Head(ids) \notin DOMAIN store
    THEN syncBackendGone(removeBackend(c, vsID, Head(ids), F), vsID, ids, store, revisit, F)
    ELSE IF ~BackendCompareStoreOptions(c.services[vsID].backends[Head(ids)].options, store[Head(ids)])
    THEN syncBackendOutdated(removeBackend(c, vsID, Head(ids), F), vsID, ids, store, revisit, F)
    ELSE syncBackends(c, vsID, Tail(ids), Del(store, Head(ids)), revisit, F)

\* The range over ctx.services in Synchronize.  ids are the services the
\* range still produces, store is what is left of storeServicesConfig; a
\* service that is removed and created again is an entry created during the
\* iteration (revisitVs).
RECURSIVE syncServices(_, _, _, _, _, _, _)
\* "service not found. removing": rm is what removeService returned.
syncServiceGone(rm, ids, store, rsOrd, revisitVs, revisitRs, F) ==
    IF rm.err # NoErr THEN SyncOut(rm.c, rm.err, store)
    ELSE syncServices(rm.c, Tail(ids), store, rsOrd, revisitVs, revisitRs, F)

\* The end of the visit of a service: nb is what the "create new backends"
\* loop returned.
syncServiceDone(nb, differ, ids, store, rsOrd, revisitVs, revisitRs, F) ==
    IF nb.err # NoErr THEN SyncOut(nb.c, nb.err, store)
    ELSE syncServices(nb.c, Tail(ids) \o (IF differ /\ revisitVs THEN <<Head(ids)>> ELSE <<>>),
                      Del(store, Head(ids)), rsOrd, revisitVs, revisitRs, F)

\* The "create new backends" loop, after the range over service.backends
\* returned sb.
syncNewBackends(sb, differ, ids, store, rsOrd, revisitVs, revisitRs, F) ==
    IF sb.err # NoErr THEN SyncOut(sb.c, sb.err, store)
    ELSE syncServiceDone(initBackends(sb.c, Head(ids), Restrict(rsOrd, DOMAIN sb.store), sb.store, F),
                         differ, ids, store, rsOrd, revisitVs, revisitRs, F)

\* The range over service.backends, the backends of the Service the range
\* over ctx.services produced: old are its rsIDs (none after removeService,
\* whose Cleanup emptied the map).
syncServiceBackends(c1, old, differ, ids, store, rsOrd, revisitVs, revisitRs, F) ==
    syncNewBackends(syncBackends(c1, Head(ids), Restrict(rsOrd, old),
                                 store[Head(ids)].ServiceBackends, revisitRs, F),
                    differ, ids, store, rsOrd, revisitVs, revisitRs, F)

\* The service's options differ, after createService returned cr.
syncServiceCreated(cr, ids, store, rsOrd, revisitVs, revisitRs, F) ==
    IF cr.err # NoErr THEN SyncOut(cr.c, cr.err, store)
    ELSE syncServiceBackends(cr.c, {}, TRUE, ids, store, rsOrd, revisitVs, revisitRs, F)

\* The service's options differ, after removeService returned rm.
syncServiceOutdated(rm, ids, store, rsOrd, revisitVs, revisitRs, F) ==
    IF rm.err # NoErr THEN SyncOut(rm.c, rm.err, store)
    ELSE syncServiceCreated(createService(rm.c, Head(ids), store[Head(ids)], rsOrd, F),
                            ids, store, rsOrd, revisitVs, revisitRs, F)

syncServices(c, ids, store, rsOrd, revisitVs, revisitRs, F) ==
    IF ids = <<>> THEN SyncOut(c, NoErr, store)
    ELSE IF Head(ids) \notin DOMAIN store
    THEN syncServiceGone(removeService(c, Head(ids), F), ids, store, rsOrd, revisitVs, revisitRs, F)
    ELSE IF ~CompareStoreOptions(c.services[Head(ids)].options, store[Head(ids)].ServiceOptions)
    THEN syncServiceOutdated(removeService(c, Head(ids), F), ids, store, rsOrd, revisitVs, revisitRs, F)
    ELSE syncServiceBackends(c, DOMAIN c.services[Head(ids)].backends, FALSE,
                             ids, store, rsOrd, revisitVs, revisitRs, F)

\* The "create new services" loop of Synchronize: r is what createService
\* returned for the first of ids.
RECURSIVE newServices(_, _, _, _, _)
newServicesNext(r, ids, store, rsOrd, F) ==
    IF r.err # NoErr THEN r ELSE newServices(r.c, Tail(ids), store, rsOrd, F)

newServices(c, ids, store, rsOrd, F) ==
    IF ids = <<>> THEN Out(c, NoErr)
    ELSE newServicesNext(createService(c, Head(ids), store[Head(ids)], rsOrd, F), ids, store, rsOrd, F)

\* Synchronize after the range over ctx.services returned ss.
syncNewServices(ss, vsOrd, rsOrd, F) ==
    IF ss.err # NoErr THEN Out(ss.c, ss.err)
    ELSE newServices(ss.c, Restrict(vsOrd, DOMAIN ss.store), ss.store, rsOrd, F)

\* A Synchronize that creates the new services before it visits the
\* running ones.
SynchronizeNewFirst(c, storeServicesConfig, vsOrd, rsOrd, revisitVs, revisitRs, F) ==
    LET new == DOMAIN storeServicesConfig \ DOMAIN c.services
        n == newServices(c, Restrict(vsOrd, new), storeServicesConfig, rsOrd, F)
        ss == syncServices(n.c, Restrict(vsOrd, DOMAIN c.services),
                           [x \in DOMAIN storeServicesConfig \ new |-> storeServicesConfig[x]],
                           rsOrd, revisitVs, revisitRs, F)
    IN IF n.err # NoErr THEN n ELSE Out(ss.c, ss.err)

\* Context.Synchronize; vsOrd and rsOrd are the orders in which its ranges
\* produce services and backends.
Synchronize(c, storeServicesConfig, vsOrd, rsOrd, revisitVs, revisitRs, F) ==
    syncNewServices(syncServices(c, Restrict(vsOrd, DOMAIN c.services), storeServicesConfig,
                                 rsOrd, revisitVs, revisitRs, F),
                    vsOrd, rsOrd, F)

(***************************************************************************)
(* Operations.  A mutator holds the Context's lock from start to end, so   *)
(* it is one step.  processPulseUpdate takes the lock to cache the         *)
(* metrics, releases it, and takes it again in GetService and in           *)
(* UpdateBackend: three steps, between which mutators may run.             *)
(***************************************************************************)
\* Exporter.collect is not running.
NoRange == [on |-> FALSE, seen |-> {}, keys |-> {}, vsID |-> "", pending |-> {}]

Ctx ==
    [services |-> services, ipvs |-> ipvs, probes |-> probes, calls |-> <<>>, events |-> <<>>,
     vipInterface |-> vipInterface, link |-> link, stopCh |-> stopCh]

Commit(c) ==
    /\ services' = c.services
    /\ ipvs' = c.ipvs
    /\ probes' = c.probes
    /\ calls' = c.calls
    /\ events' = c.events
    /\ link' = c.link
    /\ vipInterface' = vipInterface
    /\ stopCh' = c.stopCh
    /\ UNCHANGED <<sending, ranging>>

\* The argument of an operation that records none.
NoArg == [none |-> TRUE]

Returned(op, vsID, rsID, err, weight, prev, arg) ==
    [op |-> op, vsID |-> vsID, rsID |-> rsID, err |-> err, weight |-> weight, prev |-> prev, arg |-> arg]

BackendAt(svcs, src) == svcs[src[1]].backends[src[2]]

\* The destination of a live backend in the kernel table k.
HasDest(svcs, k, src) ==
    /\ SvcKey(svcs[src[1]].options) \in DOMAIN k
    /\ DestKey(BackendAt(svcs, src).options) \in DOMAIN k[SvcKey(svcs[src[1]].options)].dests
DestOf(svcs, k, src) ==
    k[SvcKey(svcs[src[1]].options)].dests[DestKey(BackendAt(svcs, src).options)]

\* What an operation leaves of a source's trail: step says how the operation
\* advanced the source src, anything else that changes a backend restarts it.
Changed(c, s) ==
    \/ Live(services, s) # Live(c.services, s)
    \/ /\ Live(services, s)
       /\ \/ BackendAt(services, s).options # BackendAt(c.services, s).options
          \/ HasDest(services, ipvs, s) # HasDest(c.services, c.ipvs, s)
          \/ /\ HasDest(services, ipvs, s)
             /\ DestOf(services, ipvs, s) # DestOf(c.services, c.ipvs, s)

Trail(c, step, src) ==
    [s \in Sources |->
        IF s = src /\ step = "created" THEN "created"
        ELSE IF s = src /\ step = "down" THEN (IF trail[s] = "created" THEN "down" ELSE "")
        ELSE IF s = src /\ step = "restored" THEN (IF trail[s] = "down" THEN "restored" ELSE "")
        ELSE IF s = src /\ step = "failed" THEN ""
        ELSE IF Changed(c, s) THEN ""
        ELSE trail[s]]

LoopIdle == UNCHANGED <<stash, pc, u, backendWeight>>

\* Context.CreateService
CreateService(vsID, serviceConfig, rsOrd, F) ==
    \E r \in {createService(Ctx, vsID, serviceConfig, rsOrd, F)} :
       /\ Commit(r.c)
       /\ ret' = Returned("CreateService", vsID, "", r.err, 0, 0,
                          [ServiceOptions |-> serviceConfig.ServiceOptions,
                           ServiceBackends |-> serviceConfig.ServiceBackends,
                           order |-> Restrict(rsOrd, DOMAIN serviceConfig.ServiceBackends)])
       /\ trail' = Trail(r.c, "", <<vsID, "">>)
       /\ LoopIdle

\* Context.CreateBackend
CreateBackend(vsID, rsID, opts, F) ==
    \E r \in {createBackend(Ctx, vsID, rsID, opts, F)} :
    LET added == \E i \in 1..Len(r.c.calls) : r.c.calls[i].fn = "AddDestPort" /\ r.c.calls[i].ok
    IN /\ Commit(r.c)
       /\ ret' = Returned("CreateBackend", vsID, rsID, r.err, 0, 0, opts)
       /\ trail' = Trail(r.c, IF r.err = NoErr /\ added THEN "created" ELSE "", <<vsID, rsID>>)
       /\ LoopIdle

\* Context.UpdateBackend, called from outside the notification loop.
UpdateBackend(vsID, rsID, weight, F) ==
    \E r \in {updateBackend(Ctx, vsID, rsID, weight, F)} :
       /\ Commit(r.c)
       /\ ret' = Returned("UpdateBackend", vsID, rsID, r.err, weight, r.prev, NoArg)
       /\ trail' = Trail(r.c, IF Live(services, <<vsID, rsID>>) THEN "failed" ELSE "", <<vsID, rsID>>)
       /\ LoopIdle

\* Context.RemoveService
RemoveService(vsID, F) ==
    \E r \in {removeService(Ctx, vsID, F)} :
       /\ Commit(r.c)
       /\ ret' = Returned("RemoveService", vsID, "", r.err, 0, 0, NoArg)
       /\ trail' = Trail(r.c, "", <<vsID, "">>)
       /\ LoopIdle

\* Context.RemoveBackend
RemoveBackend(vsID, rsID, F) ==
    \E r \in {removeBackend(Ctx, vsID, rsID, F)} :
       /\ Commit(r.c)
       /\ ret' = Returned("RemoveBackend", vsID, rsID, r.err, 0, 0, NoArg)
       /\ trail' = Trail(r.c, "", <<vsID, rsID>>)
       /\ LoopIdle

\* A range over ctx.services in Close that ends after its first RemoveService.
closeServicesFirstOnly(c, ids, F) ==
    IF ids = <<>> THEN c ELSE removeService(c, Head(ids), F).c

\* The range over ctx.services in Close: RemoveService for each vsID the
\* range produces, its result dropped.
RECURSIVE closeServices(_, _, _)
closeServices(c, ids, F) ==
    IF ids = <<>> THEN c
    ELSE closeServices(removeService(c, Head(ids), F).c, Tail(ids), F)

\* Context.Close: close(ctx.stopCh), the range over ctx.services in the
\* order vsOrd, ctx.ipvs.Exit().  Closing the closed channel panics: a
\* second Close has no step.
Close(vsOrd, F) ==
    /\ ~stopCh
    /\ \E c \in {closeServices([Event(Ctx, "close(stopCh)", <<"", "">>, FALSE) EXCEPT !.stopCh = TRUE],
                               Restrict(vsOrd, DOMAIN services), F)} :
       /\ Commit(Event(c, "Exit", <<"", "">>, FALSE))
       /\ ret' = Returned("Close", "", "", NoErr, 0, 0, [order |-> Restrict(vsOrd, DOMAIN services)])
       /\ trail' = Trail(c, "", <<"", "">>)
       /\ LoopIdle

\* The vsIDs of a services map, each with its rsIDs.
Running(svcs) == [vsID \in DOMAIN svcs |-> DOMAIN svcs[vsID].backends]

\* Store.Sync on a store that lists content: getStoreServices, Synchronize.
Sync(content, vsOrd, rsOrd, revisitVs, revisitRs, F) ==
    \E desired \in {getStoreServices(content)} :
    \E r \in {Synchronize(Ctx, desired, vsOrd, rsOrd, revisitVs, revisitRs, F)} :
       /\ Commit(r.c)
       /\ ret' = Returned("Synchronize", "", "", r.err, 0, 0,
                          [desired |-> desired, running |-> Running(services)])
       /\ trail' = Trail(r.c, "", <<"", "">>)
       /\ LoopIdle

\* What kvstore.List can answer with besides a list: store.ErrKeyNotFound,
\* or another error.
ErrKeyNotFound == "ErrKeyNotFound"
ErrList == "ErrList"

\* A getStoreServices that takes every error of List for an empty store.
getStoreServicesOfAnyList(list) ==
    IF list.err # NoErr THEN [services |-> EmptyMap, err |-> NoErr]
    ELSE [services |-> getStoreServices(list.kvlist), err |-> NoErr]

\* Store.getStoreServices from the answer of kvstore.List on: ErrKeyNotFound
\* is an empty store, another error is returned.
getStoreServicesOfList(list) ==
    IF list.err = ErrKeyNotFound THEN [services |-> EmptyMap, err |-> NoErr]
    ELSE IF list.err # NoErr THEN [services |-> EmptyMap, err |-> list.err]
    ELSE [services |-> getStoreServices(list.kvlist), err |-> NoErr]

\* Store.Sync, from the answer list of kvstore.List on: it returns when
\* getStoreServices failed, and drops the error of Synchronize.  The record
\* keeps what the operation before this one was.
StoreSync(list, vsOrd, rsOrd, revisitVs, revisitRs, F) ==
    \E g \in {getStoreServicesOfList(list)} :
       IF g.err # NoErr
       THEN /\ Commit(Ctx)
            /\ ret' = Returned("Store.Sync", "", "", g.err, 0, 0,
                               [list |-> list.err, synchronized |-> FALSE, desired |-> EmptyMap,
                                before |-> [op |-> ret.op, err |-> ret.err]])
            /\ trail' = trail
            /\ LoopIdle
       ELSE \E r \in {Synchronize(Ctx, g.services, vsOrd, rsOrd, revisitVs, revisitRs, F)} :
            /\ Commit(r.c)
            /\ ret' = Returned("Store.Sync", "", "", r.err, 0, 0,
                               [list |-> list.err, synchronized |-> TRUE, desired |-> g.services,
                                before |-> [op |-> ret.op, err |-> ret.err]])
            /\ trail' = Trail(r.c, "", <<"", "">>)
            /\ LoopIdle

(***************************************************************************)
(* The notification loop, Context.run and processPulseUpdate.              *)
(***************************************************************************)
NoUpdate == [Source |-> <<"", "">>, Metrics |-> ZeroMetrics]

\* int32(float64(weight) * health) for the health num/HealthScale: the
\* conversion truncates toward zero.
Unstash(weight, num) ==
    IF weight * num >= 0 THEN (weight * num) \div HealthScale
    ELSE -((-(weight * num)) \div HealthScale)

\* A processPulseUpdate that returns early without touching the stash.
ReceiveKeepsStash(src, m) ==
    /\ pc = "idle"
    /\ probes[src] > 0 \/ src \in DOMAIN stash
    /\ calls' = <<>>
    /\ events' = <<>>
    /\ ret' = Returned("processPulseUpdate", src[1], src[2], NoErr, 0, 0,
                       [Metrics |-> m, stashed |-> src \in DOMAIN stash])
    /\ UNCHANGED <<ipvs, probes, backendWeight, trail, vipInterface, link, stopCh, ranging>>
    /\ sending' = sending \ {src}
    /\ IF ~Live(services, src) \/ m.Status = "Removed"
       THEN /\ stash' = stash
            /\ UNCHANGED <<services, pc, u>>
       ELSE /\ services' = [services EXCEPT ![src[1]].backends[src[2]].metrics = m]
            /\ UNCHANGED stash
            /\ IF m.Status = "Up" /\ src \notin DOMAIN stash
               THEN UNCHANGED <<pc, u>>
               ELSE /\ pc' = (IF m.Status = "Up" THEN "up" ELSE "down")
                    /\ u' = [Source |-> src, Metrics |-> m]

\* A processPulseUpdate whose Up update without a stash entry puts the
\* weight of the backend back to the MaxWeight of its service.
ReceiveRestoresWeight(src, m) ==
    /\ pc = "idle"
    /\ probes[src] > 0 \/ src \in DOMAIN stash
    /\ calls' = <<>>
    /\ events' = <<>>
    /\ ret' = Returned("processPulseUpdate", src[1], src[2], NoErr, 0, 0,
                       [Metrics |-> m, stashed |-> src \in DOMAIN stash])
    /\ UNCHANGED <<ipvs, probes, backendWeight, trail, vipInterface, link, stopCh, ranging>>
    /\ sending' = sending \ {src}
    /\ IF ~Live(services, src) \/ m.Status = "Removed"
       THEN /\ stash' = Del(stash, src)
            /\ UNCHANGED <<services, pc, u>>
       ELSE /\ UNCHANGED stash
            /\ IF m.Status = "Up" /\ src \notin DOMAIN stash
               THEN /\ services' = [services EXCEPT ![src[1]].backends[src[2]].metrics = m,
                                                    ![src[1]].backends[src[2]].options.weight =
                                                        services[src[1]].options.MaxWeight]
                    /\ UNCHANGED <<pc, u>>
               ELSE /\ services' = [services EXCEPT ![src[1]].backends[src[2]].metrics = m]
                    /\ pc' = (IF m.Status = "Up" THEN "up" ELSE "down")
                    /\ u' = [Source |-> src, Metrics |-> m]

\* run receives the update m of the probe of src, and processPulseUpdate
\* runs under the lock up to its first Unlock (and, for an Up update, up to
\* the lookup in the stash, which only the loop touches).  The update is
\* one of a running probe, or a late one of a stopped probe; a late update
\* changes something only while the stash holds an entry for its source.
Receive(src, m) ==
    /\ pc = "idle"
    /\ probes[src] > 0 \/ src \in DOMAIN stash
    /\ calls' = <<>>
    /\ events' = <<>>
    /\ ret' = Returned("processPulseUpdate", src[1], src[2], NoErr, 0, 0,
                       [Metrics |-> m, stashed |-> src \in DOMAIN stash])
    /\ UNCHANGED <<ipvs, probes, backendWeight, trail, vipInterface, link, stopCh, ranging>>
    /\ sending' = sending \ {src}
    /\ IF ~Live(services, src) \/ m.Status = "Removed"
       THEN /\ stash' = Del(stash, src)
            /\ UNCHANGED <<services, pc, u>>
       ELSE /\ services' = [services EXCEPT ![src[1]].backends[src[2]].metrics = m]
            /\ UNCHANGED stash
            /\ IF m.Status = "Up" /\ src \notin DOMAIN stash
               THEN UNCHANGED <<pc, u>>
               ELSE /\ pc' = (IF m.Status = "Up" THEN "up" ELSE "down")
                    /\ u' = [Source |-> src, Metrics |-> m]

\* A StatusUp case that keeps the stash entry after a full recovery.
PulseUpKeepsStash(F) ==
    /\ pc = "up"
    /\ LET src == u.Source
           weight == Unstash(stash[src], u.Metrics.Health)
           r == updateBackend(Ctx, src[1], src[2], weight, F)
       IN /\ Commit(r.c)
          /\ ret' = Returned("PulseUp", src[1], src[2], r.err, weight, r.prev, NoArg)
          /\ trail' = Trail(r.c, "failed", src)
    /\ pc' = "idle"
    /\ u' = NoUpdate
    /\ UNCHANGED <<backendWeight, stash>>

\* case StatusUp: UpdateBackend to the stashed weight scaled by the health.
PulseUp(F) ==
    /\ pc = "up"
    /\ LET src == u.Source
           weight == Unstash(stash[src], u.Metrics.Health)
           r == updateBackend(Ctx, src[1], src[2], weight, F)
       IN /\ Commit(r.c)
          /\ ret' = Returned("PulseUp", src[1], src[2], r.err, weight, r.prev, NoArg)
          /\ stash' = IF r.err = NoErr /\ weight = stash[src] THEN Del(stash, src) ELSE stash
          /\ trail' = Trail(r.c, IF r.err = NoErr /\ u.Metrics.Health = HealthScale
                                 THEN "restored" ELSE "failed", src)
    /\ pc' = "idle"
    /\ u' = NoUpdate
    /\ UNCHANGED backendWeight

\* case StatusDown, "Apply Fallback rules": GetService under the read lock.
PulseGetService ==
    /\ pc = "down"
    /\ LET vsID == u.Source[1]
           serviceInfo == CalcServiceStat(services[vsID])
       IN backendWeight' =
            IF vsID \notin DOMAIN services THEN 0
            ELSE IF serviceInfo.HealthNum = 0
                    /\ serviceInfo.FallBack \in DOMAIN fallbackFlags
                    /\ fallbackFlags[serviceInfo.FallBack] = ZeroToOne
            THEN 1
            ELSE 0
    /\ pc' = "downUpdate"
    /\ calls' = <<>>
    /\ events' = <<>>
    /\ ret' = Returned("GetService", u.Source[1], "", IF u.Source[1] \in DOMAIN services THEN NoErr ELSE ErrObjectNotFound, 0, 0, NoArg)
    /\ UNCHANGED <<services, ipvs, probes, stash, u, trail, vipInterface, link, stopCh, sending, ranging>>

\* A StatusDown case that stashes what UpdateBackend returned whatever its
\* error.
PulseDownStashesOnError(F) ==
    /\ pc = "downUpdate"
    /\ LET src == u.Source
           r == updateBackend(Ctx, src[1], src[2], backendWeight, F)
       IN /\ Commit(r.c)
          /\ ret' = Returned("PulseDown", src[1], src[2], r.err, backendWeight, r.prev, NoArg)
          /\ stash' = IF src \notin DOMAIN stash THEN Put(stash, src, r.prev) ELSE stash
          /\ trail' = Trail(r.c, IF r.err = NoErr THEN "down" ELSE "failed", src)
    /\ pc' = "idle"
    /\ u' = NoUpdate
    /\ backendWeight' = 0

\* A StatusDown case that stashes what UpdateBackend returned over an
\* entry the stash already holds.
PulseDownOverwrites(F) ==
    /\ pc = "downUpdate"
    /\ LET src == u.Source
           r == updateBackend(Ctx, src[1], src[2], backendWeight, F)
       IN /\ Commit(r.c)
          /\ ret' = Returned("PulseDown", src[1], src[2], r.err, backendWeight, r.prev, NoArg)
          /\ stash' = IF r.err = NoErr THEN Put(stash, src, r.prev) ELSE stash
          /\ trail' = Trail(r.c, IF r.err = NoErr THEN "down" ELSE "failed", src)
    /\ pc' = "idle"
    /\ u' = NoUpdate
    /\ backendWeight' = 0

\* case StatusDown: UpdateBackend to backendWeight, stash the previous weight.
PulseDown(F) ==
    /\ pc = "downUpdate"
    /\ LET src == u.Source
           r == updateBackend(Ctx, src[1], src[2], backendWeight, F)
       IN /\ Commit(r.c)
          /\ ret' = Returned("PulseDown", src[1], src[2], r.err, backendWeight, r.prev, NoArg)
          /\ stash' = IF r.err = NoErr /\ src \notin DOMAIN stash THEN Put(stash, src, r.prev) ELSE stash
          /\ trail' = Trail(r.c, IF r.err = NoErr THEN "down" ELSE "failed", src)
    /\ pc' = "idle"
    /\ u' = NoUpdate
    /\ backendWeight' = 0

\* A run that returns on the stop signal wherever processPulseUpdate is.
runReturnsAnywhere ==
    /\ pc # "returned"
    /\ stopCh
    /\ pc' = "returned"
    /\ calls' = <<>>
    /\ events' = <<>>
    /\ ret' = Returned("run", "", "", NoErr, 0, 0, NoArg)
    /\ UNCHANGED <<services, ipvs, probes, stash, u, backendWeight, trail, vipInterface, link,
                   stopCh, sending, ranging>>

\* case <-ctx.stopCh: run returns.
runReturns ==
    /\ pc = "idle"
    /\ stopCh
    /\ pc' = "returned"
    /\ calls' = <<>>
    /\ events' = <<>>
    /\ ret' = Returned("run", "", "", NoErr, 0, 0, NoArg)
    /\ UNCHANGED <<services, ipvs, probes, stash, u, backendWeight, trail, vipInterface, link,
                   stopCh, sending, ranging>>

\* The probe task of src pushes an update into Context.pulseCh.  The channel
\* has no buffer (make(chan pulse.Update)): the push is over when run
\* receives the update, and until then the task is blocked in it.
probeSend(src) ==
    /\ probes[src] > 0
    /\ src \notin sending
    /\ sending' = sending \cup {src}
    /\ calls' = <<>>
    /\ events' = <<>>
    /\ ret' = Returned("Pulse.Loop", src[1], src[2], NoErr, 0, 0, NoArg)
    /\ UNCHANGED <<services, ipvs, probes, stash, pc, u, backendWeight, trail, vipInterface, link,
                   stopCh, ranging>>

(***************************************************************************)
(* Inputs and specifications.                                              *)
(***************************************************************************)
\* The sets of failing driver calls of an operation that makes up to n calls.
Failures(n) == SUBSET (1..n)

\* The service options of the specification Spec: the default fallback and
\* fb-zero-to-one.
ServiceOptionsIn ==
    {SvcOpts("vip1", "", MaxW, "nil"),
     SvcOpts("vip1", "fb-zero-to-one", MaxW, "nil")}

ServiceConfigs == {[ServiceOptions |-> o, ServiceBackends |-> EmptyMap] : o \in ServiceOptionsIn}

\* The backend options CreateBackend is called with for rsID.
BackendOptionsIn(rsID) == {BOpts(IF rsID = "rs1" THEN "ip1" ELSE "ip2", 8080)}

\* The weights UpdateBackend is called with from outside the loop.
WeightsIn == {-1, MaxW}

\* The updates a probe sends.
MetricsIn ==
    {[Status |-> "Up", Health |-> h] : h \in 1..HealthScale}
    \cup {[Status |-> "Down", Health |-> h] : h \in 0..(HealthScale - 1)}
    \cup {[Status |-> "Removed", Health |-> 0]}

\* The services of the specification Spec.
PulseVs == {"vsA"}

\* The updates of the specification Spec: the probe of rs1 sends every
\* update of MetricsIn, the probe of rs2 reports full health.
UpdatesIn ==
    ({<<"vsA", "rs1">>} \X MetricsIn)
    \cup {<<<<"vsA", "rs2">>, [Status |-> "Up", Health |-> HealthScale]>>}

\* NewContext: no services, a flushed kernel table, the loop waiting.
Init ==
    /\ services = EmptyMap
    /\ ipvs = EmptyMap
    /\ probes = [s \in Sources |-> 0]
    /\ stash = EmptyMap
    /\ pc = "idle"
    /\ u = NoUpdate
    /\ backendWeight = 0
    /\ calls = <<>>
    /\ events = <<>>
    /\ vipInterface = FALSE
    /\ link = {}
    /\ stopCh = FALSE
    /\ sending = {}
    /\ ranging = NoRange
    /\ ret = Returned("NewContext", "", "", NoErr, 0, 0, NoArg)
    /\ trail = [s \in Sources |-> ""]

Next ==
    \/ \E vsID \in PulseVs, cfg \in ServiceConfigs :
          CreateService(vsID, cfg, <<"rs1", "rs2">>, {})
    \/ \E vsID \in PulseVs, rsID \in RsIDs :
          \E opts \in BackendOptionsIn(rsID) : CreateBackend(vsID, rsID, opts, {})
    \/ \E vsID \in PulseVs, weight \in WeightsIn : UpdateBackend(vsID, "rs1", weight, {})
    \/ \E vsID \in PulseVs : RemoveService(vsID, {})
    \/ \E vsID \in PulseVs, rsID \in RsIDs : RemoveBackend(vsID, rsID, {})
    \/ \E upd \in UpdatesIn : Receive(upd[1], upd[2])
    \/ \E F \in Failures(1) : PulseUp(F)
    \/ PulseGetService
    \/ \E F \in Failures(1) : PulseDown(F)

Spec == Init /\ [][Next]_vars

(***************************************************************************)
(* The specification SpecCtx: the mutators with driver calls that fail,    *)
(* services with bundled backends and with Pulse options pulse.New         *)
(* rejects.  The notification loop receives nothing.                       *)
(***************************************************************************)
CtxServiceConfigs ==
    {[ServiceOptions |-> SvcOpts("vip1", "", MaxW, p), ServiceBackends |-> b] :
        p \in {"nil", "bad"}, b \in {EmptyMap, Put(EmptyMap, "rs1", BOpts("ip1", 8080))}}
    \cup {[ServiceOptions |-> SvcOpts("nohost", "", MaxW, "nil"), ServiceBackends |-> EmptyMap],
           [ServiceOptions |-> SvcOpts("vip1", "", MaxW, "nil"),
            ServiceBackends |-> Put(Put(EmptyMap, "rs1", BOpts("ip1", 8080)), "rs2", BOpts("nohost", 8080))]}

NextCtx ==
    \/ \E vsID \in PulseVs, cfg \in CtxServiceConfigs, rsOrd \in Orders(RsIDs), F \in Failures(MaxFail) :
          CreateService(vsID, cfg, rsOrd, F)
    \/ \E vsID \in PulseVs, rsID \in RsIDs, F \in Failures(2) :
          \E opts \in BackendOptionsIn(rsID) : CreateBackend(vsID, rsID, opts, F)
    \/ \E vsID \in PulseVs, rsID \in RsIDs, weight \in WeightsIn, F \in Failures(1) :
          UpdateBackend(vsID, rsID, weight, F)
    \/ \E vsID \in PulseVs, F \in Failures(1) : RemoveService(vsID, F)
    \/ \E vsID \in PulseVs, rsID \in RsIDs, F \in Failures(1) : RemoveBackend(vsID, rsID, F)

SpecCtx == Init /\ [][NextCtx]_vars

(***************************************************************************)
(* The specification SpecKept: the mutators of SpecCtx on a Context made   *)
(* without Flush, whose kernel table is what an earlier run of the daemon  *)
(* left: nothing, the service vip1:80/tcp, or that service with the        *)
(* destination ip1:8080.                                                   *)
(***************************************************************************)
KeptService(dests) ==
    Put(EmptyMap, <<"vip1", 80, "IPPROTO_TCP">>, [Sched |-> "wrr", Flags |-> {}, dests |-> dests])

KeptTables ==
    {EmptyMap,
     KeptService(EmptyMap),
     KeptService(Put(EmptyMap, <<"ip1", 8080>>, [weight |-> MaxW, fwd |-> "IPVS_MASQUERADING"]))}

\* NewContext with options.Flush unset.
InitKept ==
    /\ services = EmptyMap
    /\ ipvs \in KeptTables
    /\ probes = [s \in Sources |-> 0]
    /\ stash = EmptyMap
    /\ pc = "idle"
    /\ u = NoUpdate
    /\ backendWeight = 0
    /\ calls = <<>>
    /\ events = <<>>
    /\ vipInterface = FALSE
    /\ link = {}
    /\ stopCh = FALSE
    /\ sending = {}
    /\ ranging = NoRange
    /\ ret = Returned("NewContext", "", "", NoErr, 0, 0, NoArg)
    /\ trail = [s \in Sources |-> ""]

SpecKept == InitKept /\ [][NextCtx]_vars

(***************************************************************************)
(* The specification SpecPair: two services, vsA on vip1 and vsB on vip2,  *)
(* and CreateBackend on both, with driver calls that fail and with         *)
(* backend options of the other address family or with a host that does    *)
(* not resolve.                                                            *)
(***************************************************************************)
PairOptionsIn(vsID) == {SvcOpts(IF vsID = "vsA" THEN "vip1" ELSE "vip2", "", MaxW, "nil")}

PairBackendOptionsIn(rsID) ==
    IF rsID = "rs1" THEN {BOpts("ip1", 8080), BOpts("ip6", 8080), BOpts("nohost", 8080)}
    ELSE {BOpts("ip2", 8080)}

NextPair ==
    \/ \E vsID \in VsIDs : \E o \in PairOptionsIn(vsID) :
          CreateService(vsID, [ServiceOptions |-> o, ServiceBackends |-> EmptyMap], <<"rs1", "rs2">>, {})
    \/ \E vsID \in VsIDs, rsID \in RsIDs, F \in Failures(2) :
          \E opts \in PairBackendOptionsIn(rsID) : CreateBackend(vsID, rsID, opts, F)
    \/ \E vsID \in VsIDs : RemoveService(vsID, {})
    \/ \E vsID \in VsIDs, rsID \in RsIDs : RemoveBackend(vsID, rsID, {})

SpecPair == Init /\ [][NextPair]_vars

(***************************************************************************)
(* Context.CompareWith and Store.StoreSyncStatus.  The buckets of a        *)
(* StoreSyncStatus are slices, nil until the first append: sequences, in   *)
(* the order of the ranges (which the result does not depend on but for    *)
(* the order within a bucket).  A backend is named <<vsID, rsID>> for      *)
(* "[vsID/rsID]".                                                          *)
(***************************************************************************)
EmptySyncStatus ==
    [RemovedServices |-> <<>>, RemovedBackends |-> <<>>, UpdatedServices |-> <<>>,
     UpdatedBackends |-> <<>>, NewServices |-> <<>>, NewBackends |-> <<>>, Status |-> ""]

\* A CheckStatus that looks at the services only.
CheckStatusOfServices(sync) ==
    IF \/ sync.NewServices # <<>>
       \/ sync.UpdatedServices # <<>>
       \/ sync.RemovedServices # <<>>
    THEN "need sync" ELSE "ok"

\* StoreSyncStatus.CheckStatus
CheckStatus(sync) ==
    IF \/ sync.NewServices # <<>>
       \/ sync.NewBackends # <<>>
       \/ sync.UpdatedBackends # <<>>
       \/ sync.UpdatedServices # <<>>
       \/ sync.RemovedBackends # <<>>
       \/ sync.RemovedServices # <<>>
    THEN "need sync" ELSE "ok"

\* The range over service.backends in CompareWith: ids are the backends it
\* has still to produce, storeBackends what is left of the desired ones.
RECURSIVE compareBackends(_, _, _, _, _)
compareBackends(sync, vsID, backends, ids, storeBackends) ==
    IF ids = {} THEN [sync |-> sync, storeBackends |-> storeBackends]
    ELSE IF (CHOOSE r \in ids : TRUE) \notin DOMAIN storeBackends
    THEN compareBackends([sync EXCEPT !.RemovedBackends = Append(@, <<vsID, CHOOSE r \in ids : TRUE>>)],
                         vsID, backends, ids \ {CHOOSE r \in ids : TRUE}, storeBackends)
    ELSE IF ~BackendCompareStoreOptions(backends[CHOOSE r \in ids : TRUE].options,
                                        storeBackends[CHOOSE r \in ids : TRUE])
    THEN compareBackends([sync EXCEPT !.UpdatedBackends = Append(@, <<vsID, CHOOSE r \in ids : TRUE>>)],
                         vsID, backends, ids \ {CHOOSE r \in ids : TRUE},
                         Del(storeBackends, CHOOSE r \in ids : TRUE))
    ELSE compareBackends(sync, vsID, backends, ids \ {CHOOSE r \in ids : TRUE},
                         Del(storeBackends, CHOOSE r \in ids : TRUE))

\* "find new Backends": the name is made of storeBackend.vsID, a field that
\* nothing assigns, and the rsID.
RECURSIVE compareNewBackends(_, _)
compareNewBackends(sync, ids) ==
    IF ids = {} THEN sync
    ELSE compareNewBackends([sync EXCEPT !.NewBackends = Append(@, <<"", CHOOSE r \in ids : TRUE>>)],
                            ids \ {CHOOSE r \in ids : TRUE})

\* "find new services"
RECURSIVE compareNewServices(_, _)
compareNewServices(sync, ids) ==
    IF ids = {} THEN sync
    ELSE compareNewServices([sync EXCEPT !.NewServices = Append(@, CHOOSE v \in ids : TRUE)],
                            ids \ {CHOOSE v \in ids : TRUE})

\* One service of the range over ctx.services that the store has: its
\* options, its backends, the new backends.
compareService(sync, vsID, service, storeServiceOptions) ==
    compareNewBackends(
        compareBackends(IF ~CompareStoreOptions(service.options, storeServiceOptions.ServiceOptions)
                        THEN [sync EXCEPT !.UpdatedServices = Append(@, vsID)]
                        ELSE sync,
                        vsID, service.backends, DOMAIN service.backends,
                        storeServiceOptions.ServiceBackends).sync,
        DOMAIN storeServiceOptions.ServiceBackends \ DOMAIN service.backends)

\* The range over ctx.services in CompareWith, then the new services.
RECURSIVE compareServices(_, _, _, _)
compareServices(sync, svcs, ids, storeServices) ==
    IF ids = {} THEN compareNewServices(sync, DOMAIN storeServices)
    ELSE IF (CHOOSE v \in ids : TRUE) \notin DOMAIN storeServices
    THEN compareServices([sync EXCEPT !.RemovedServices = Append(@, CHOOSE v \in ids : TRUE)],
                         svcs, ids \ {CHOOSE v \in ids : TRUE}, storeServices)
    ELSE compareServices(compareService(sync, CHOOSE v \in ids : TRUE, svcs[CHOOSE v \in ids : TRUE],
                                        storeServices[CHOOSE v \in ids : TRUE]),
                         svcs, ids \ {CHOOSE v \in ids : TRUE},
                         Del(storeServices, CHOOSE v \in ids : TRUE))

\* Context.CompareWith
CompareWith(svcs, storeServices) ==
    [compareServices(EmptySyncStatus, svcs, DOMAIN svcs, storeServices)
        EXCEPT !.Status = CheckStatus(compareServices(EmptySyncStatus, svcs, DOMAIN svcs, storeServices))]

\* A snapshot of the running state svcs as a desired configuration: the
\* exported fields of the options of every service, and the Host and Port
\* of every backend.
Snapshot(svcs) ==
    [vsID \in DOMAIN svcs |->
        [ServiceOptions |-> [svcs[vsID].options EXCEPT !.host = "", !.delIfAddr = FALSE,
                                                       !.protocol = "", !.methodID = ""],
         ServiceBackends |-> [rsID \in DOMAIN svcs[vsID].backends |->
                                 BOpts(svcs[vsID].backends[rsID].options.Host,
                                       svcs[vsID].backends[rsID].options.Port)]]]

\* Context.CompareWith on a snapshot of the running state.
CompareWithSnapshot ==
    /\ Commit(Ctx)
    /\ ret' = Returned("CompareWith", "", "", NoErr, 0, 0,
                       [desired |-> Snapshot(services),
                        syncStatus |-> CompareWith(services, Snapshot(services))])
    /\ trail' = trail
    /\ LoopIdle

\* Store.StoreSyncStatus on a store that lists content.
StoreSyncStatus(content) ==
    \E desired \in {getStoreServices(content)} :
       /\ Commit(Ctx)
       /\ ret' = Returned("StoreSyncStatus", "", "", NoErr, 0, 0,
                          [desired |-> desired, syncStatus |-> CompareWith(services, desired)])
       /\ trail' = trail
       /\ LoopIdle

(***************************************************************************)
(* The specification SpecClose: two services, which may share one kernel   *)
(* service, their backends, and Close, after which the Context is not used.*)
(***************************************************************************)
CloseOptionsIn(vsID) ==
    IF vsID = "vsA" THEN {SvcOpts("vip1", "", MaxW, "nil")}
    ELSE {SvcOpts("vip1", "", MaxW, "nil"), SvcOpts("vip2", "", MaxW, "nil")}

NextClose ==
    \/ \E vsID \in VsIDs : \E o \in CloseOptionsIn(vsID) :
          /\ ret.op # "Close"
          /\ CreateService(vsID, [ServiceOptions |-> o, ServiceBackends |-> EmptyMap], <<"rs1", "rs2">>, {})
    \/ \E vsID \in VsIDs, rsID \in RsIDs :
          \E opts \in BackendOptionsIn(rsID) :
             /\ ret.op # "Close"
             /\ CreateBackend(vsID, rsID, opts, {})
    \/ \E vsID \in VsIDs, rsID \in RsIDs :
          /\ ret.op # "Close"
          /\ RemoveBackend(vsID, rsID, {})
    \/ \E vsOrd \in Orders(VsIDs), F \in Failures(Cardinality(VsIDs)) :
          /\ ret.op # "Close"
          /\ Close(vsOrd, F)

SpecClose == Init /\ [][NextClose]_vars

(***************************************************************************)
(* The specification SpecSync: Store.Sync against stores that list nothing *)
(* or vsA, under one of two addresses, without backends or with rs1 on one *)
(* of two ports; the mutators build the running state, in which vsB and    *)
(* rs2 are a service and a backend the store does not list.                *)
(***************************************************************************)
SyncOptionsIn(vsID) ==
    IF vsID = "vsA" THEN {SvcOpts("vip1", "", MaxW, "nil"), SvcOpts("vip2", "", MaxW, "nil")}
    ELSE {SvcOpts("vip3", "", MaxW, "nil")}

SyncBackendOptionsIn(rsID) ==
    IF rsID = "rs1" THEN {BOpts("ip1", 8080), BOpts("ip1", 8081)} ELSE {BOpts("ip2", 8080)}

\* The bundles of backends the store lists for a service: for vsA none, or
\* rs1 on one of its ports.
SyncBackendsIn(vsID) ==
    IF vsID = "vsA"
    THEN {EmptyMap} \cup {Put(EmptyMap, "rs1", o) : o \in SyncBackendOptionsIn("rs1")}
    ELSE {EmptyMap}

SyncConfigsIn(vsID) ==
    {[ServiceOptions |-> o, ServiceBackends |-> b] : o \in SyncOptionsIn(vsID), b \in SyncBackendsIn(vsID)}

\* What the store lists.
StoreContents == {EmptyMap} \cup {Put(EmptyMap, "vsA", cfg) : cfg \in SyncConfigsIn("vsA")}

NextSync ==
    \/ \E vsID \in VsIDs : \E o \in SyncOptionsIn(vsID) :
          CreateService(vsID, [ServiceOptions |-> o, ServiceBackends |-> EmptyMap], <<"rs1", "rs2">>, {})
    \/ \E rsID \in RsIDs : \E opts \in SyncBackendOptionsIn(rsID) : CreateBackend("vsA", rsID, opts, {})
    \/ \E vsID \in VsIDs : RemoveService(vsID, {})
    \/ \E rsID \in RsIDs : RemoveBackend("vsA", rsID, {})
    \/ \E content \in StoreContents, vsOrd \in Orders(VsIDs),
          revisitVs \in BOOLEAN, revisitRs \in BOOLEAN, F \in Failures(1) :
          Sync(content, vsOrd, <<"rs1", "rs2">>, revisitVs, revisitRs, F)

SpecSync == Init /\ [][NextSync]_vars

(***************************************************************************)
(* The specification SpecOrder: Store.Sync against stores that list vsA,   *)
(* vsB, both or neither, on a running state the mutators build.            *)
(***************************************************************************)
OrderContents ==
    StoreContents
    \cup {Put(content, "vsB", cfg) : content \in StoreContents, cfg \in SyncConfigsIn("vsB")}

NextOrder ==
    \/ \E vsID \in VsIDs : \E o \in SyncOptionsIn(vsID) :
          CreateService(vsID, [ServiceOptions |-> o, ServiceBackends |-> EmptyMap], <<"rs1", "rs2">>, {})
    \/ \E rsID \in RsIDs : \E opts \in SyncBackendOptionsIn(rsID) : CreateBackend("vsA", rsID, opts, {})
    \/ \E content \in OrderContents, vsOrd \in Orders(VsIDs),
          revisitVs \in BOOLEAN, revisitRs \in BOOLEAN, F \in Failures(1) :
          Sync(content, vsOrd, <<"rs1", "rs2">>, revisitVs, revisitRs, F)

SpecOrder == Init /\ [][NextOrder]_vars

(***************************************************************************)
(* The specification SpecDiff: two services and their backends, created    *)
(* and removed through the Context, weights set by UpdateBackend, and      *)
(* StoreSyncStatus on a store that lists any of these services.            *)
(***************************************************************************)
DiffBackendsIn(vsID) ==
    IF vsID = "vsA"
    THEN {EmptyMap, Put(EmptyMap, "rs1", BOpts("ip1", 8080)), Put(EmptyMap, "rs1", BOpts("ip1", 8081)),
          Put(Put(EmptyMap, "rs1", BOpts("ip1", 8080)), "rs2", BOpts("ip2", 8080))}
    ELSE {EmptyMap, Put(EmptyMap, "rs1", BOpts("ip1", 8080))}

DiffConfigsIn(vsID) ==
    {[ServiceOptions |-> o, ServiceBackends |-> b] : o \in SyncOptionsIn(vsID), b \in DiffBackendsIn(vsID)}

\* What the store lists: for each vsID nothing, or options with a bundle.
DiffContents ==
    UNION {{c \in [D -> UNION {DiffConfigsIn(vsID) : vsID \in VsIDs}] :
               \A vsID \in D : c[vsID] \in DiffConfigsIn(vsID)} : D \in SUBSET VsIDs}

\* The options the services are created with: those of the store, and for
\* vsA options that Validate completes (the default endpoint, the default
\* MaxWeight) and puts in lower case.
DiffOptionsIn(vsID) ==
    SyncOptionsIn(vsID)
    \cup (IF vsID = "vsA"
          THEN {[SvcOpts("", "fb-zero-to-one", 0, "nil")
                    EXCEPT !.Protocol = "TCP", !.FwdMethod = "DR", !.ShFlags = "sh-port|sh-fallback"]}
          ELSE {})

NextDiff ==
    \/ \E vsID \in VsIDs : \E o \in DiffOptionsIn(vsID) :
          CreateService(vsID, [ServiceOptions |-> o, ServiceBackends |-> EmptyMap], <<"rs1", "rs2">>, {})
    \/ \E vsID \in VsIDs, rsID \in RsIDs : \E opts \in SyncBackendOptionsIn(rsID) :
          CreateBackend(vsID, rsID, opts, {})
    \/ \E weight \in WeightsIn : UpdateBackend("vsA", "rs1", weight, {})
    \/ \E vsID \in VsIDs : RemoveService(vsID, {})
    \/ \E rsID \in RsIDs : RemoveBackend("vsA", rsID, {})
    \/ \E content \in DiffContents : StoreSyncStatus(content)
    \/ CompareWithSnapshot

SpecDiff == Init /\ [][NextDiff]_vars

(***************************************************************************)
(* The specification SpecVip: a Context with a VIP interface, which has no *)
(* address or has vip1 already; two services, which may share a VIP, are   *)
(* created and removed while driver, Disco and netlink calls fail or not.  *)
(***************************************************************************)
InitVip ==
    /\ services = EmptyMap
    /\ ipvs = EmptyMap
    /\ probes = [s \in Sources |-> 0]
    /\ stash = EmptyMap
    /\ pc = "idle"
    /\ u = NoUpdate
    /\ backendWeight = 0
    /\ calls = <<>>
    /\ events = <<>>
    /\ vipInterface = TRUE
    /\ link \in {{}, {"vip1"}}
    /\ stopCh = FALSE
    /\ sending = {}
    /\ ranging = NoRange
    /\ ret = Returned("NewContext", "", "", NoErr, 0, 0, NoArg)
    /\ trail = [s \in Sources |-> ""]

VipOptionsIn(vsID) ==
    IF vsID = "vsA" THEN {SvcOpts("vip1", "", MaxW, "nil")}
    ELSE {SvcOpts("vip2", "", MaxW, "nil"), [SvcOpts("vip1", "", MaxW, "nil") EXCEPT !.Port = 81]}

\* The calls of an operation that fail: driver calls among the first n, the
\* Disco calls, the netlink calls.
SideFailures(n) == {S \cup T : S \in Failures(n), T \in SUBSET {0, -1}}

NextVip ==
    \/ \E vsID \in VsIDs, F \in SideFailures(2) : \E o \in VipOptionsIn(vsID) :
          CreateService(vsID, [ServiceOptions |-> o, ServiceBackends |-> EmptyMap], <<"rs1", "rs2">>, F)
    \/ \E F \in SideFailures(2) : \E opts \in BackendOptionsIn("rs1") : CreateBackend("vsA", "rs1", opts, F)
    \/ \E vsID \in VsIDs, F \in SideFailures(1) : RemoveService(vsID, F)

SpecVip == InitVip /\ [][NextVip]_vars

(***************************************************************************)
(* The specification SpecFlags: services with scheduler flags, created on  *)
(* a kernel table that was flushed or has vip1:80/tcp from an earlier run, *)
(* while driver calls fail or not.                                         *)
(***************************************************************************)
ShFlagsIn == {"", "sh-port", "sh-fallback|sh-port", "sh-port|sh-fallback", "flag-1|flag-2|flag-3"}

FlagsOptionsIn(vsID) ==
    {[SvcOpts(IF vsID = "vsA" THEN "vip1" ELSE "vip2", "", MaxW, "nil") EXCEPT !.ShFlags = f] :
        f \in IF vsID = "vsA" THEN ShFlagsIn ELSE {"sh-port"}}

NextFlags ==
    \/ \E vsID \in VsIDs, F \in Failures(2) : \E o \in FlagsOptionsIn(vsID) :
          CreateService(vsID, [ServiceOptions |-> o, ServiceBackends |-> EmptyMap], <<"rs1", "rs2">>, F)
    \/ \E vsID \in VsIDs, F \in Failures(1) : RemoveService(vsID, F)

SpecFlags == InitKept /\ [][NextFlags]_vars

(***************************************************************************)
(* The specification SpecValid: services created from options that have    *)
(* one field with a default, an accepted or an unknown value, or every     *)
(* enumerated field unknown.                                               *)
(***************************************************************************)
ValidBase(vsID) == SvcOpts(IF vsID = "vsA" THEN "vip1" ELSE "vip2", "", MaxW, "nil")

ValidOptionsIn(vsID) ==
    IF vsID # "vsA" THEN {[ValidBase(vsID) EXCEPT !.Fallback = x] : x \in {"", "fb-default|fb-zero-to-one"}}
    ELSE
    {[ValidBase(vsID) EXCEPT !.Protocol = x] : x \in {"", "TCP", "udp", "sctp"}}
    \cup {[ValidBase(vsID) EXCEPT !.ShFlags = x] : x \in {"sh-port", "sh-port|sh-fallback", "sh-port|bogus"}}
    \cup {[ValidBase(vsID) EXCEPT !.Fallback = x] :
             x \in {"fb-default", "fb-zero-to-one", "fb-default|fb-zero-to-one", "fb-bogus"}}
    \cup {[ValidBase(vsID) EXCEPT !.FwdMethod = x] : x \in {"", "DR", "tunnel", "ipip", "bogus"}}
    \cup {[ValidBase(vsID) EXCEPT !.MaxWeight = x] : x \in {-1, 0}}
    \cup {[ValidBase(vsID) EXCEPT !.Protocol = "sctp", !.ShFlags = "sh-port|bogus",
                                  !.Fallback = "fb-bogus", !.FwdMethod = "bogus"],
            [ValidBase(vsID) EXCEPT !.ShFlags = "sh-port|bogus",
                                  !.Fallback = "fb-bogus", !.FwdMethod = "bogus"],
            [ValidBase(vsID) EXCEPT !.Fallback = "fb-bogus", !.FwdMethod = "bogus"]}

NextValid ==
    \/ \E vsID \in VsIDs, F \in Failures(1) : \E o \in ValidOptionsIn(vsID) :
          CreateService(vsID, [ServiceOptions |-> o, ServiceBackends |-> EmptyMap], <<"rs1", "rs2">>, F)
    \/ \E vsID \in VsIDs, F \in Failures(1) : RemoveService(vsID, F)

SpecValid == Init /\ [][NextValid]_vars

(***************************************************************************)
(* The REST surface without a store: each handler calls one operation of   *)
(* the Context and answers an error with writeError.                       *)
(***************************************************************************)
\* Context.GetService on the services map svcs: the error and the info.
GetService(svcs, vsID) ==
    IF vsID \notin DOMAIN svcs THEN [info |-> "", err |-> ErrObjectNotFound]
    ELSE [info |-> CalcServiceStat(svcs[vsID]), err |-> NoErr]

\* Context.GetBackend on the services map svcs: the error and the info.
GetBackend(svcs, vsID, rsID) ==
    IF vsID \notin DOMAIN svcs THEN [info |-> "", err |-> Errorf(ErrObjectNotFound, "vsID")]
    ELSE IF rsID \notin DOMAIN svcs[vsID].backends THEN [info |-> "", err |-> Errorf(ErrObjectNotFound, "rsID")]
    ELSE [info |-> [Options |-> svcs[vsID].backends[rsID].options,
                    Metrics |-> svcs[vsID].backends[rsID].metrics],
          err |-> NoErr]

StatusOK == "200"
StatusBadRequest == "400"
StatusNotFound == "404"
StatusConflict == "409"
StatusInternalServerError == "500"

\* writeError: the status code of the switch on the error value.
writeError(err) ==
    CASE err = ErrIpvsSyscallFailed -> StatusInternalServerError
      [] err = ErrObjectExists -> StatusConflict
      [] err = ErrObjectNotFound -> StatusNotFound
      [] OTHER -> StatusBadRequest

\* The status code of the response to a request whose operation returned r.
Response(r) == IF r.err = NoErr THEN StatusOK ELSE writeError(r.err)

\* GET /service/{vsID}
serviceStatusHandler(vsID) ==
    /\ Commit([Ctx EXCEPT !.calls = <<>>, !.events = <<>>])
    /\ ret' = Returned("GetService", vsID, "", GetService(services, vsID).err, 0, 0, NoArg)
    /\ trail' = trail
    /\ LoopIdle

\* GET /service/{vsID}/{rsID}
backendStatusHandler(vsID, rsID) ==
    /\ Commit([Ctx EXCEPT !.calls = <<>>, !.events = <<>>])
    /\ ret' = Returned("GetBackend", vsID, rsID, GetBackend(services, vsID, rsID).err, 0, 0, NoArg)
    /\ trail' = trail
    /\ LoopIdle

NextRest ==
    \/ \E vsID \in PulseVs, cfg \in CtxServiceConfigs, rsOrd \in Orders(RsIDs), F \in Failures(MaxFail) :
          CreateService(vsID, cfg, rsOrd, F)
    \/ \E vsID \in PulseVs, rsID \in RsIDs, F \in Failures(2) :
          \E opts \in BackendOptionsIn(rsID) \cup {BOpts("ip6", 8080)} : CreateBackend(vsID, rsID, opts, F)
    \/ \E vsID \in PulseVs, F \in Failures(1) : RemoveService(vsID, F)
    \/ \E vsID \in PulseVs, rsID \in RsIDs, F \in Failures(1) : RemoveBackend(vsID, rsID, F)
    \/ \E vsID \in PulseVs : serviceStatusHandler(vsID)
    \/ \E vsID \in PulseVs, rsID \in RsIDs : backendStatusHandler(vsID, rsID)

SpecRest == Init /\ [][NextRest]_vars

(***************************************************************************)
(* Exporter.collect, the task of a Prometheus scrape.  It ranges over      *)
(* e.ctx.services without the Context lock, and calls GetService and       *)
(* GetBackend, each of which takes the shared lock on its own: between two *)
(* of these calls every other task may run.  A range over a map that       *)
(* another task writes is a data race: the Go runtime may end the process  *)
(* ("concurrent map iteration and map write"), or the range goes on and    *)
(* produces any key.                                                       *)
(***************************************************************************)
ErrFatal == "fatal error: concurrent map iteration and map write"

\* The map was written since the range of collect began.
Raced == ranging.on /\ ranging.keys # DOMAIN services

\* collect begins: for serviceName := range e.ctx.services
collectRange ==
    /\ ~ranging.on
    /\ ranging' = [on |-> TRUE, seen |-> {}, keys |-> DOMAIN services, vsID |-> "", pending |-> {}]
    /\ ret' = Returned("Exporter.collect", "", "", NoErr, 0, 0, [step |-> "range"])
    /\ calls' = <<>> /\ events' = <<>>
    /\ UNCHANGED <<services, ipvs, probes, trail, vipInterface, link, stopCh, sending>>
    /\ LoopIdle

\* The range produces serviceName: e.ctx.GetService(serviceName).
collectService(serviceName) ==
    /\ ranging.on /\ ranging.pending = {}
    /\ serviceName \in (IF Raced THEN VsIDs ELSE DOMAIN services) \ ranging.seen
    /\ \E r \in {GetService(services, serviceName)} :
          /\ ranging' = IF r.err # NoErr THEN NoRange
                        ELSE [ranging EXCEPT !.seen = @ \cup {serviceName}, !.vsID = serviceName,
                                             !.pending = r.info.Backends]
          /\ ret' = Returned("Exporter.collect", serviceName, "", r.err, 0, 0, [step |-> "GetService"])
    /\ calls' = <<>> /\ events' = <<>>
    /\ UNCHANGED <<services, ipvs, probes, trail, vipInterface, link, stopCh, sending>>
    /\ LoopIdle

\* for _, backendName := range service.Backends: e.ctx.GetBackend.
collectBackend(backendName) ==
    /\ ranging.on /\ backendName \in ranging.pending
    /\ \E r \in {GetBackend(services, ranging.vsID, backendName)} :
          /\ ranging' = IF r.err # NoErr THEN NoRange
                        ELSE [ranging EXCEPT !.pending = @ \ {backendName}]
          /\ ret' = Returned("Exporter.collect", ranging.vsID, backendName, r.err, 0, 0, [step |-> "GetBackend"])
    /\ calls' = <<>> /\ events' = <<>>
    /\ UNCHANGED <<services, ipvs, probes, trail, vipInterface, link, stopCh, sending>>
    /\ LoopIdle

\* The range is over: collect returns nil.
collectDone ==
    /\ ranging.on /\ ranging.pending = {}
    /\ DOMAIN services \subseteq ranging.seen
    /\ ranging' = NoRange
    /\ ret' = Returned("Exporter.collect", "", "", NoErr, 0, 0, [step |-> "return"])
    /\ calls' = <<>> /\ events' = <<>>
    /\ UNCHANGED <<services, ipvs, probes, trail, vipInterface, link, stopCh, sending>>
    /\ LoopIdle

\* The runtime finds the range racing with a write of the map and ends the
\* process.
collectThrows ==
    /\ Raced
    /\ ranging' = NoRange
    /\ ret' = Returned("Exporter.collect", "", "", ErrFatal, 0, 0, [step |-> "throw"])
    /\ calls' = <<>> /\ events' = <<>>
    /\ UNCHANGED <<services, ipvs, probes, trail, vipInterface, link, stopCh, sending>>
    /\ LoopIdle

(***************************************************************************)
(* The specification SpecLock: the REST mutators and a scrape, as tasks    *)
(* that run one beside the other until the process ends.                   *)
(***************************************************************************)
LockOptionsIn(vsID) == {SvcOpts(IF vsID = "vsA" THEN "vip1" ELSE "vip2", "", MaxW, "nil")}

\* The process has not ended.
Alive == ret.err # ErrFatal

NextLock ==
    \/ \E vsID \in VsIDs : \E o \in LockOptionsIn(vsID) :
          /\ Alive
          /\ CreateService(vsID, [ServiceOptions |-> o, ServiceBackends |-> EmptyMap], <<"rs1", "rs2">>, {})
    \/ \E vsID \in VsIDs : Alive /\ RemoveService(vsID, {})
    \/ \E vsID \in VsIDs : \E opts \in BackendOptionsIn("rs1") : Alive /\ CreateBackend(vsID, "rs1", opts, {})
    \/ \E vsID \in VsIDs : Alive /\ RemoveBackend(vsID, "rs1", {})
    \/ Alive /\ collectRange
    \/ \E serviceName \in VsIDs : Alive /\ collectService(serviceName)
    \/ \E backendName \in RsIDs : Alive /\ collectBackend(backendName)
    \/ Alive /\ collectDone
    \/ Alive /\ collectThrows

SpecLock == Init /\ [][NextLock]_vars

(***************************************************************************)
(* The specification SpecWindow: the notification loop beside the REST     *)
(* mutators and the reconciliation of a store that lists nothing, vsA      *)
(* without backends or vsA with rs1.                                       *)
(***************************************************************************)
WindowContents ==
    {EmptyMap} \cup
    {Put(EmptyMap, "vsA", [ServiceOptions |-> SvcOpts("vip1", "", MaxW, "nil"), ServiceBackends |-> b]) :
        b \in {EmptyMap, Put(EmptyMap, "rs1", BOpts("ip1", 8080))}}

NextWindow ==
    \/ \E cfg \in ServiceConfigs : CreateService("vsA", cfg, <<"rs1", "rs2">>, {})
    \/ \E opts \in BackendOptionsIn("rs1") : CreateBackend("vsA", "rs1", opts, {})
    \/ RemoveService("vsA", {})
    \/ RemoveBackend("vsA", "rs1", {})
    \/ \E content \in WindowContents :
          Sync(content, <<"vsA", "vsB">>, <<"rs1", "rs2">>, FALSE, FALSE, {})
    \/ \E m \in MetricsIn : Receive(<<"vsA", "rs1">>, m)
    \/ \E F \in Failures(1) : PulseUp(F)
    \/ PulseGetService
    \/ \E F \in Failures(1) : PulseDown(F)

SpecWindow == Init /\ [][NextWindow]_vars

(***************************************************************************)
(* The specification SpecChan: the probe of a backend pushes updates, run  *)
(* receives them and processes them, Close stops the loop.                 *)
(***************************************************************************)
ChanMetricsIn == {[Status |-> "Up", Health |-> HealthScale], [Status |-> "Down", Health |-> 0]}

ChanConfig == [ServiceOptions |-> SvcOpts("vip1", "", MaxW, "nil"), ServiceBackends |-> EmptyMap]

NextChan ==
    \/ CreateService("vsA", ChanConfig, <<"rs1", "rs2">>, {})
    \/ \E opts \in BackendOptionsIn("rs1") : CreateBackend("vsA", "rs1", opts, {})
    \/ RemoveBackend("vsA", "rs1", {})
    \/ probeSend(<<"vsA", "rs1">>)
    \/ \E src \in sending, m \in ChanMetricsIn : Receive(src, m)
    \/ PulseUp({})
    \/ PulseGetService
    \/ \E F \in Failures(1) : PulseDown(F)
    \/ Close(<<"vsA", "vsB">>, {})
    \/ runReturns

SpecChan == Init /\ [][NextChan]_vars

\* SpecChan under fair scheduling.  A processPulseUpdate that has begun goes
\* on: the lock it waits for is released by every operation that takes it.
\* At its select run takes a ready case at random, so that it does not pass
\* over the closed stopCh forever while updates keep arriving.
SpecStop ==
    /\ Init /\ [][NextChan]_vars
    /\ WF_vars(PulseUp({}))
    /\ WF_vars(PulseGetService)
    /\ WF_vars(\E F \in Failures(1) : PulseDown(F))
    /\ SF_vars(runReturns)

(***************************************************************************)
(* The specification SpecList: SpecSync with Store.Sync on a store whose   *)
(* List answers with a list or with an error.                              *)
(***************************************************************************)
ListsIn ==
    {[err |-> e, kvlist |-> EmptyMap] : e \in {ErrKeyNotFound, ErrList}}
    \cup {[err |-> NoErr, kvlist |-> content] : content \in StoreContents}

NextList ==
    \/ \E vsID \in VsIDs : \E o \in SyncOptionsIn(vsID) :
          CreateService(vsID, [ServiceOptions |-> o, ServiceBackends |-> EmptyMap], <<"rs1", "rs2">>, {})
    \/ \E rsID \in RsIDs : \E opts \in SyncBackendOptionsIn(rsID) : CreateBackend("vsA", rsID, opts, {})
    \/ \E vsID \in VsIDs : RemoveService(vsID, {})
    \/ \E rsID \in RsIDs : RemoveBackend("vsA", rsID, {})
    \/ \E list \in ListsIn, vsOrd \in Orders(VsIDs), F \in Failures(1) :
          StoreSync(list, vsOrd, <<"rs1", "rs2">>, FALSE, FALSE, F)

SpecList == Init /\ [][NextList]_vars

(***************************************************************************)
(* The specification SpecWeights: the service vsA and its backends, whose  *)
(* weights UpdateBackend and the notification loop change, compared and    *)
(* synchronized with a store that lists vsA or nothing.                    *)
(***************************************************************************)
\* The updates of the probe of rs1: Down, Up at partial and at full health.
WeightUpdatesIn ==
    {[Status |-> "Down", Health |-> 0], [Status |-> "Up", Health |-> 1],
     [Status |-> "Up", Health |-> HealthScale]}

NextWeights ==
    \/ \E o \in SyncOptionsIn("vsA") :
          CreateService("vsA", [ServiceOptions |-> o, ServiceBackends |-> EmptyMap], <<"rs1", "rs2">>, {})
    \/ \E rsID \in RsIDs : \E opts \in SyncBackendOptionsIn(rsID) : CreateBackend("vsA", rsID, opts, {})
    \/ \E weight \in WeightsIn : UpdateBackend("vsA", "rs1", weight, {})
    \/ \E m \in WeightUpdatesIn : Receive(<<"vsA", "rs1">>, m)
    \/ PulseUp({})
    \/ PulseGetService
    \/ PulseDown({})
    \/ \E content \in StoreContents, revisit \in BOOLEAN :
          Sync(content, <<"vsA", "vsB">>, <<"rs1", "rs2">>, revisit, revisit, {})
    \/ \E content \in StoreContents : StoreSyncStatus(content)

SpecWeights == Init /\ [][NextWeights]_vars

(***************************************************************************)
(* Failed driver calls (C1).                                               *)
(***************************************************************************)
Mutators == {"CreateService", "CreateBackend", "UpdateBackend", "RemoveService", "RemoveBackend"}

\* The step is a mutator of ops in which a driver call named in fns failed.
FailedCall(ops, fns) ==
    /\ ret'.op \in ops
    /\ \E i \in 1..Len(calls') : ~calls'[i].ok /\ calls'[i].fn \in fns

DriverCalls ==
    {"GetPools", "AddService", "AddServiceWithFlags", "DelService",
     "AddDestPort", "UpdateDestPort", "DelDestPort"}

\* C1 as stated: whenever a driver call of CreateService, CreateBackend,
\* UpdateBackend, RemoveService or RemoveBackend fails, the operation returns
\* SyscallFailed and the services map is as it was before the call.
C1_AsStated ==
    [][FailedCall(Mutators, DriverCalls)
        => ret'.err = ErrIpvsSyscallFailed /\ services' = services /\ probes' = probes]_vars

\* C1, amended: whenever a driver call of CreateBackend, UpdateBackend,
\* RemoveService or RemoveBackend fails, or the AddService or
\* AddServiceWithFlags call of CreateService fails, the operation returns
\* SyscallFailed and the services map and the running probes are as they
\* were before the call.
C1_FailedCallLeavesState ==
    [][(FailedCall(Mutators \ {"CreateService"}, DriverCalls)
        \/ FailedCall({"CreateService"}, {"AddService", "AddServiceWithFlags"}))
        => ret'.err = ErrIpvsSyscallFailed /\ services' = services /\ probes' = probes]_vars

\* RemoveService returned SyscallFailed for a service with a backend, after a
\* failed DelService, and both are still in the map.
C1_Witness ==
    /\ ret.op = "RemoveService"
    /\ ret.err = ErrIpvsSyscallFailed
    /\ Len(calls) = 1 /\ calls[1].fn = "DelService" /\ ~calls[1].ok
    /\ Live(services, <<ret.vsID, "rs1">>)

(***************************************************************************)
(* The map and the kernel table (C2).                                      *)
(***************************************************************************)
\* C2: a backend is in the services map exactly when its destination is in
\* the kernel table: every backend of the map has its destination under its
\* service, and every destination of the kernel table is the one of a
\* backend of the map (so no CreateBackend that returned an error left one).
C2_MapMatchesKernel ==
    /\ \A s \in Sources : Live(services, s) => HasDest(services, ipvs, s)
    /\ \A k \in DOMAIN ipvs : \A d \in DOMAIN ipvs[k].dests :
          \E s \in Sources :
              /\ Live(services, s)
              /\ SvcKey(services[s[1]].options) = k
              /\ DestKey(BackendAt(services, s).options) = d

(***************************************************************************)
(* Weights and the stash (C3, C4, C5).                                     *)
(***************************************************************************)
\* C3: a backend created with AddDestPort at its service's MaxWeight, then
\* taken Down and brought Up at full health with every driver call
\* succeeding, has MaxWeight as the weight last written to the kernel and no
\* stash entry.
C3_StashRestoresMaxWeight ==
    \A s \in Sources :
        trail[s] = "restored" =>
            /\ s \notin DOMAIN stash
            /\ ret.op = "PulseUp" /\ ret.weight = services[s[1]].options.MaxWeight
            /\ DestOf(services, ipvs, s).weight = services[s[1]].options.MaxWeight

\* C4: every weight passed to AddDestPort or UpdateDestPort is in
\* 0..MaxWeight, and so is the weight of every backend of the map.
C4_WeightsInRange ==
    /\ \A i \in 1..Len(calls) :
          calls[i].fn \in {"AddDestPort", "UpdateDestPort"} => calls[i].weight \in 0..MaxW
    /\ \A s \in Sources :
          Live(services, s) =>
              BackendAt(services, s).options.weight \in 0..services[s[1]].options.MaxWeight

\* C5: every stash entry is the one of a backend of the map whose weight is
\* strictly less than the entry.
C5_StashEntriesLive ==
    \A s \in DOMAIN stash :
        Live(services, s) /\ BackendAt(services, s).options.weight < stash[s]

(***************************************************************************)
(* Down and Up updates (C8, C9, C10).  The loop is about to call           *)
(* UpdateBackend for the update u when pc is "up" or "downUpdate"; the     *)
(* step that does so brings pc back to "idle".                             *)
(***************************************************************************)
\* The one driver call of the step is UpdateDestPort for the backend src
\* with the weight w.
OneUpdateDestPort(src, w) ==
    /\ Len(calls') = 1
    /\ calls'[1].fn = "UpdateDestPort"
    /\ calls'[1].svc = SvcKey(services[src[1]].options)
    /\ calls'[1].dest = DestKey(BackendAt(services, src).options)
    /\ calls'[1].weight = w

\* C8: a Down update for a backend of the map without a stash entry, when
\* the fallback rule does not apply, makes exactly one UpdateDestPort call,
\* with weight 0, and if the call succeeds the stash holds the weight the
\* backend had before the call.
C8_DownWritesZeroAndStashes ==
    [][(/\ pc = "downUpdate" /\ pc' = "idle"
        /\ Live(services, u.Source)
        /\ u.Source \notin DOMAIN stash
        /\ backendWeight = 0)
        => /\ OneUpdateDestPort(u.Source, 0)
           /\ calls'[1].ok =>
                 stash' = Put(stash, u.Source, BackendAt(services, u.Source).options.weight)]_vars

\* A Down update was processed with the driver call succeeding: the backend
\* went from a positive weight to 0 and the stash holds the positive weight.
C8_Witness ==
    /\ ret.op = "PulseDown" /\ ret.err = NoErr
    /\ ret.weight = 0 /\ ret.prev > 0
    /\ Len(calls) = 1 /\ calls[1].fn = "UpdateDestPort" /\ calls[1].weight = 0 /\ calls[1].ok
    /\ Live(services, <<ret.vsID, ret.rsID>>)
    /\ BackendAt(services, <<ret.vsID, ret.rsID>>).options.weight = 0
    /\ <<ret.vsID, ret.rsID>> \in DOMAIN stash
    /\ stash[<<ret.vsID, ret.rsID>>] = ret.prev

\* Every backend of the service vsID reports health 0 (its aggregate Health
\* is 0).
AllHealthZero(vsID) ==
    \A r \in DOMAIN services[vsID].backends : services[vsID].backends[r].metrics.Health = 0

\* The weight a Down update is to write, decided in the GetService step.
FallbackDecided ==
    (pc = "down" /\ pc' = "downUpdate")
    => backendWeight' =
         IF /\ u.Source[1] \in DOMAIN services
            /\ services[u.Source[1]].options.Fallback = "fb-zero-to-one"
            /\ AllHealthZero(u.Source[1])
         THEN 1 ELSE 0

\* The metrics of a Down update are cached in its backend when it is received.
MetricsCached ==
    (pc = "idle" /\ pc' = "down")
    => /\ Live(services', u'.Source)
       /\ BackendAt(services', u'.Source).metrics = u'.Metrics
       /\ u'.Metrics.Status = "Down"

\* C9 as stated: the weight a Down update writes for a backend of the map is
\* 1 exactly when the service's aggregate Health is 0 and its Fallback is
\* fb-zero-to-one, and 0 otherwise; and in both cases the stash then holds
\* the weight the backend had before.
C9_AsStated ==
    [][/\ MetricsCached
       /\ FallbackDecided
       /\ (pc = "downUpdate" /\ pc' = "idle" /\ Live(services, u.Source))
           => /\ OneUpdateDestPort(u.Source, backendWeight)
              /\ stash' = Put(stash, u.Source, BackendAt(services, u.Source).options.weight)]_vars

\* C9, amended: the weight a Down update writes for a backend of the map is
\* 1 exactly when the service's aggregate Health, over the map with this
\* update's metrics cached, is 0 and its Fallback is fb-zero-to-one, and 0
\* otherwise; the stash records the weight the backend had before only when
\* the call succeeds and the stash has no entry for the backend, and is left
\* as it was otherwise.
C9_DownWeightAndStash ==
    [][/\ MetricsCached
       /\ FallbackDecided
       /\ (pc = "downUpdate" /\ pc' = "idle" /\ Live(services, u.Source))
           => /\ OneUpdateDestPort(u.Source, backendWeight)
              /\ stash' = IF calls'[1].ok /\ u.Source \notin DOMAIN stash
                          THEN Put(stash, u.Source, BackendAt(services, u.Source).options.weight)
                          ELSE stash]_vars

\* A Down update wrote weight 1 for a backend of a fb-zero-to-one service
\* whose backends all report health 0, and the stash holds the positive
\* weight the backend had before.
C9_Witness ==
    /\ ret.op = "PulseDown" /\ ret.err = NoErr
    /\ ret.weight = 1 /\ ret.prev > 1
    /\ Len(calls) = 1 /\ calls[1].fn = "UpdateDestPort" /\ calls[1].weight = 1 /\ calls[1].ok
    /\ Live(services, <<ret.vsID, ret.rsID>>)
    /\ services[ret.vsID].options.Fallback = "fb-zero-to-one"
    /\ AllHealthZero(ret.vsID)
    /\ Cardinality(DOMAIN services[ret.vsID].backends) = 2
    /\ <<ret.vsID, ret.rsID>> \in DOMAIN stash
    /\ stash[<<ret.vsID, ret.rsID>>] = ret.prev

\* C10 as stated: an Up update with health 1.0 for a backend of the map with
\* the stash entry s calls UpdateDestPort with weight s, after which the
\* backend's weight is s and the stash has no entry for it.
C10_AsStated ==
    [][(/\ pc = "up" /\ pc' = "idle"
        /\ u.Metrics.Health = HealthScale
        /\ Live(services, u.Source))
        => /\ OneUpdateDestPort(u.Source, stash[u.Source])
           /\ BackendAt(services', u.Source).options.weight = stash[u.Source]
           /\ u.Source \notin DOMAIN stash']_vars

\* C10, amended: an Up update with health 1.0 for a backend of the map with
\* the stash entry s calls UpdateDestPort with weight s; when the call
\* succeeds the backend's weight is s and the stash has no entry for it, and
\* when it fails the services map and the stash are as they were.
C10_FullRecoveryRestores ==
    [][(/\ pc = "up" /\ pc' = "idle"
        /\ u.Metrics.Health = HealthScale
        /\ Live(services, u.Source))
        => /\ OneUpdateDestPort(u.Source, stash[u.Source])
           /\ IF calls'[1].ok
              THEN /\ BackendAt(services', u.Source).options.weight = stash[u.Source]
                   /\ u.Source \notin DOMAIN stash'
              ELSE services' = services /\ stash' = stash]_vars

\* An Up update at full health restored a positive stashed weight: the
\* backend has the weight written and the stash has no entry for it.
C10_Witness ==
    /\ ret.op = "PulseUp" /\ ret.err = NoErr
    /\ ret.weight > 0 /\ ret.prev = 0
    /\ Len(calls) = 1 /\ calls[1].fn = "UpdateDestPort" /\ calls[1].weight = ret.weight /\ calls[1].ok
    /\ Live(services, <<ret.vsID, ret.rsID>>)
    /\ BackendAt(services, <<ret.vsID, ret.rsID>>).metrics = [Status |-> "Up", Health |-> HealthScale]
    /\ BackendAt(services, <<ret.vsID, ret.rsID>>).options.weight = ret.weight
    /\ <<ret.vsID, ret.rsID>> \notin DOMAIN stash

(***************************************************************************)
(* Reconciliation (C6, C7).                                                *)
(***************************************************************************)
\* The services map svcs is what desired asks for: the same vsIDs, service
\* options that compare equal, the same rsIDs with backend options that
\* compare equal.
Converged(svcs, desired) ==
    /\ DOMAIN svcs = DOMAIN desired
    /\ \A vsID \in DOMAIN svcs :
          /\ CompareStoreOptions(svcs[vsID].options, desired[vsID].ServiceOptions)
          /\ DOMAIN svcs[vsID].backends = DOMAIN desired[vsID].ServiceBackends
          /\ \A rsID \in DOMAIN svcs[vsID].backends :
                BackendCompareStoreOptions(svcs[vsID].backends[rsID].options,
                                           desired[vsID].ServiceBackends[rsID])

\* C6: when Synchronize(desired) returns without error, the services map has
\* the vsIDs of desired, with service options that compare equal to the
\* desired ones, and for each the rsIDs of desired with equal backend options.
C6_SynchronizeConverges ==
    (ret.op = "Synchronize" /\ ret.err = NoErr) => Converged(services, ret.arg.desired)

\* Synchronize was called with nothing desired on the running state
\* {vsA: {rs1}}.
RemovalOfVsA ==
    /\ ret'.op = "Synchronize"
    /\ ret'.arg.desired = EmptyMap
    /\ Running(services) = Put(EmptyMap, "vsA", {"rs1"})

\* C7 as stated: Synchronize with nothing desired on the running state
\* {vsA: {rs1}} calls DelDestPort for rs1 and then DelService for vsA, and
\* leaves a services map without vsA.
C7_AsStated ==
    [][RemovalOfVsA =>
        /\ Len(calls') = 2
        /\ calls'[1].fn = "DelDestPort"
        /\ calls'[1].dest = DestKey(services["vsA"].backends["rs1"].options)
        /\ calls'[2].fn = "DelService"
        /\ calls'[2].svc = SvcKey(services["vsA"].options)
        /\ "vsA" \notin DOMAIN services']_vars

\* C7, amended: Synchronize with nothing desired on the running state
\* {vsA: {rs1}} makes one driver call, DelService for vsA, and no
\* DelDestPort for rs1; when the call succeeds the services map is left
\* without vsA and the probe of rs1 is stopped, and when it fails
\* Synchronize returns the error and the services map is as it was.
C7_RemovalByDelService ==
    [][RemovalOfVsA =>
        /\ Len(calls') = 1
        /\ calls'[1].fn = "DelService"
        /\ calls'[1].svc = SvcKey(services["vsA"].options)
        /\ IF calls'[1].ok
           THEN /\ ret'.err = NoErr
                /\ services' = EmptyMap
                /\ probes'[<<"vsA", "rs1">>] = 0
                /\ SvcKey(services["vsA"].options) \notin DOMAIN ipvs'
           ELSE ret'.err = ErrIpvsSyscallFailed /\ services' = services /\ probes' = probes]_vars

\* Synchronize with nothing desired has removed vsA, which had the backend
\* rs1, with one successful DelService.
C7_Witness ==
    /\ ret.op = "Synchronize" /\ ret.err = NoErr
    /\ ret.arg.desired = EmptyMap
    /\ ret.arg.running = Put(EmptyMap, "vsA", {"rs1"})
    /\ Len(calls) = 1 /\ calls[1].fn = "DelService" /\ calls[1].ok
    /\ services = EmptyMap
    /\ ipvs = EmptyMap

(***************************************************************************)
(* Partial recovery (C11).                                                 *)
(***************************************************************************)
\* C11: an Up update with health h for a backend of the map with the stash
\* entry s calls UpdateBackend with the weight floor(s * h) (\div rounds
\* down), and when that weight differs from s the stash keeps the entry s.
C11_PartialRecoveryRamps ==
    [][(/\ pc = "up" /\ pc' = "idle"
        /\ Live(services, u.Source))
        => /\ ret'.op = "PulseUp"
           /\ ret'.weight = (stash[u.Source] * u.Metrics.Health) \div HealthScale
           /\ OneUpdateDestPort(u.Source, (stash[u.Source] * u.Metrics.Health) \div HealthScale)
           /\ ret'.weight # stash[u.Source] =>
                 /\ u.Source \in DOMAIN stash'
                 /\ stash'[u.Source] = stash[u.Source]]_vars

(***************************************************************************)
(* Updates for what is gone (C12).                                         *)
(***************************************************************************)
\* C12: a Pulse update whose service or backend is not in the map, whatever
\* its status, or whose status is Removed, leaves the stash without an entry
\* for its source, makes no driver call (the loop goes back to waiting
\* without calling UpdateBackend), and changes nothing in the services map
\* (no backend's cached metrics or weight) nor in the kernel table.
C12_GoneUpdateDropsStash ==
    [][(/\ ret'.op = "processPulseUpdate"
        /\ \/ ~Live(services, <<ret'.vsID, ret'.rsID>>)
           \/ ret'.arg.Metrics.Status = "Removed")
        => /\ <<ret'.vsID, ret'.rsID>> \notin DOMAIN stash'
           /\ \A s \in DOMAIN stash' : s \in DOMAIN stash /\ stash'[s] = stash[s]
           /\ calls' = <<>>
           /\ pc = "idle" /\ pc' = "idle"
           /\ services' = services
           /\ ipvs' = ipvs]_vars

\* A Down update arrived for a backend that is no longer in the map and had
\* a stash entry: the entry is gone and no driver call was made.
C12_Witness ==
    /\ ret.op = "processPulseUpdate"
    /\ ret.arg.Metrics.Status = "Down"
    /\ ret.arg.stashed
    /\ ~Live(services, <<ret.vsID, ret.rsID>>)
    /\ <<ret.vsID, ret.rsID>> \notin DOMAIN stash
    /\ calls = <<>>
    /\ pc = "idle"

(***************************************************************************)
(* Probes (C13).                                                           *)
(***************************************************************************)
\* C13: every backend of the services map has exactly one running probe, and
\* every probe an operation (RemoveBackend, RemoveService, Synchronize)
\* stopped was stopped while its backend was still reachable through the
\* services map.
C13_OneProbeStoppedFirst ==
    /\ \A s \in Sources : Live(services, s) => probes[s] = 1
    /\ \A i \in 1..Len(events) : events[i].ev = "Stop" => events[i].reachable

(***************************************************************************)
(* CreateService (C14, C15, C16).                                          *)
(***************************************************************************)
\* The step is a CreateService with options that Validate accepts.
ValidCreateService ==
    /\ ret'.op = "CreateService"
    /\ Validate(ret'.arg.ServiceOptions, endpoint).err = NoErr

\* C14: CreateService with valid options for a vsID that is in the services
\* map returns ObjectExists, makes no driver call (so no AddService, no
\* AddServiceWithFlags, no AddDestPort) and no Disco call, and leaves the
\* services map (the service, its options, its backends), the kernel table
\* and the probes as they were.
C14_ExistingServiceRefused ==
    [][(ValidCreateService /\ ret'.vsID \in DOMAIN services)
        => /\ ret'.err = ErrObjectExists
           /\ calls' = <<>>
           /\ events' = <<>>
           /\ services' = services
           /\ ipvs' = ipvs
           /\ probes' = probes]_vars

\* CreateService with a bundled backend was refused with ObjectExists for a
\* service that has no backend, and nothing was called.
C14_Witness ==
    /\ ret.op = "CreateService"
    /\ ret.err = ErrObjectExists
    /\ ret.arg.ServiceBackends # EmptyMap
    /\ ret.vsID \in DOMAIN services
    /\ services[ret.vsID].backends = EmptyMap
    /\ calls = <<>>
    /\ events = <<>>

\* The step is a CreateService with valid options for a vsID that is not in
\* the services map, while the kernel table has its (VIP, port, protocol).
FreshOverKept ==
    /\ ValidCreateService
    /\ ret'.vsID \notin DOMAIN services
    /\ SvcKey(Validate(ret'.arg.ServiceOptions, endpoint).o) \in DOMAIN ipvs

\* The operation made no AddService or AddServiceWithFlags call.
NoAddService ==
    \A i \in 1..Len(calls') : calls'[i].fn \notin {"AddService", "AddServiceWithFlags"}

BundledBackendFailed ==
    /\ ValidCreateService
    /\ ret'.vsID \notin DOMAIN services
    /\ ret'.err # NoErr
    /\ \/ calls'[1].ok /\ SvcKey(Validate(ret'.arg.ServiceOptions, endpoint).o) \in DOMAIN ipvs
       \/ /\ Len(calls') >= 2
          /\ calls'[2].fn \in {"AddService", "AddServiceWithFlags"}
          /\ calls'[2].ok

\* The error createBackend returns for the bundled backend rsID when it is
\* the one that fails: SyscallFailed after a failed driver call, else the
\* error of its validation, else the error of pulse.New.
BundledError(rsID) ==
    IF ~calls'[Len(calls')].ok THEN ErrIpvsSyscallFailed
    ELSE IF BackendValidate(ret'.arg.ServiceBackends[rsID]).err # NoErr
    THEN BackendValidate(ret'.arg.ServiceBackends[rsID]).err
    ELSE pulseNew(services'[ret'.vsID].options.Pulse)

\* C16: when CreateService fails while creating the n-th of its bundled
\* backends (in the order the range produced them), it returns the error of
\* that backend, the service is in the services map and in the kernel table,
\* the backends before the n-th are in the map with their probe running and
\* their destination in the kernel table, and neither the n-th nor a later
\* one is in the map or has a probe.
C16_BundleFailureLeavesService ==
    [][BundledBackendFailed
        => /\ ret'.vsID \in DOMAIN services'
           /\ services'[ret'.vsID].options = Validate(ret'.arg.ServiceOptions, endpoint).o
           /\ SvcKey(services'[ret'.vsID].options) \in DOMAIN ipvs'
           /\ \E n \in 1..Len(ret'.arg.order) :
                 /\ ret'.err = BundledError(ret'.arg.order[n])
                 /\ DOMAIN services'[ret'.vsID].backends = {ret'.arg.order[i] : i \in 1..(n - 1)}
                 /\ \A i \in 1..Len(ret'.arg.order) :
                       /\ probes'[<<ret'.vsID, ret'.arg.order[i]>>] = (IF i < n THEN 1 ELSE 0)
                       /\ i < n => HasDest(services', ipvs', <<ret'.vsID, ret'.arg.order[i]>>)]_vars

\* CreateService with the bundle rs1, rs2 returned the error of rs2 after
\* creating rs1: the service is in the map with rs1 only.
C16_Witness ==
    /\ ret.op = "CreateService"
    /\ ret.err = ErrResolve
    /\ ret.arg.order = <<"rs1", "rs2">>
    /\ ret.vsID \in DOMAIN services
    /\ DOMAIN services[ret.vsID].backends = {"rs1"}
    /\ probes[<<ret.vsID, "rs1">>] = 1
    /\ probes[<<ret.vsID, "rs2">>] = 0

(***************************************************************************)
(* CreateBackend (C17, C18).                                               *)
(***************************************************************************)
\* The error with which CreateBackend(vsID, rsID, opts) is to be refused
\* before it calls the driver, or nil.
Refusal(vsID, rsID, opts) ==
    IF vsID \notin DOMAIN services THEN ErrObjectNotFound
    ELSE IF rsID \in DOMAIN services[vsID].backends THEN ErrObjectExists
    ELSE IF BackendValidate(opts).err # NoErr THEN NoErr
    ELSE IF (opts.Host \in {"ip6", "vip6"}) # (services[vsID].options.host \in {"ip6", "vip6"})
    THEN ErrIncompatibleAFs
    ELSE NoErr

\* C17: CreateBackend returns ObjectNotFound for a vsID that is not in the
\* services map, ObjectExists for an rsID the service has, and
\* IncompatibleAFs for a backend of another address family than the service;
\* in these cases it makes no driver call, starts no probe, and leaves the
\* services map and the kernel table as they were.  An rsID that only
\* another service has is not a duplicate: with options of the service's
\* address family and every driver call succeeding the backend is created.
C17_CreateBackendRefusals ==
    [][ret'.op = "CreateBackend"
        => /\ Refusal(ret'.vsID, ret'.rsID, ret'.arg) # NoErr
              => /\ Is(ret'.err, Refusal(ret'.vsID, ret'.rsID, ret'.arg))
                 /\ calls' = <<>>
                 /\ events' = <<>>
                 /\ probes' = probes
                 /\ services' = services
                 /\ ipvs' = ipvs
           /\ (/\ Refusal(ret'.vsID, ret'.rsID, ret'.arg) = NoErr
               /\ BackendValidate(ret'.arg).err = NoErr
               /\ \E v \in DOMAIN services : v # ret'.vsID /\ ret'.rsID \in DOMAIN services[v].backends
               /\ \A i \in 1..Len(calls') : calls'[i].ok)
              => /\ ret'.err = NoErr
                 /\ Live(services', <<ret'.vsID, ret'.rsID>>)]_vars

\* CreateBackend was refused with IncompatibleAFs, without a driver call,
\* for an rsID that the service does not have and the other service has.
C17_Witness ==
    /\ ret.op = "CreateBackend"
    /\ ret.err = ErrIncompatibleAFs
    /\ calls = <<>>
    /\ ret.vsID \in DOMAIN services
    /\ ~Live(services, <<ret.vsID, ret.rsID>>)
    /\ \E v \in DOMAIN services : v # ret.vsID /\ Live(services, <<v, ret.rsID>>)

\* The step is a CreateBackend on a service of the map, with an rsID the
\* service does not have and options that are valid and of its address
\* family.
FreshBackend ==
    /\ ret'.op = "CreateBackend"
    /\ ret'.vsID \in DOMAIN services
    /\ Refusal(ret'.vsID, ret'.rsID, ret'.arg) = NoErr
    /\ BackendValidate(ret'.arg).err = NoErr

\* The kernel table has the destination of the backend being created.
DestKept ==
    /\ SvcKey(services[ret'.vsID].options) \in DOMAIN ipvs
    /\ <<ret'.arg.Host, ret'.arg.Port>> \in DOMAIN ipvs[SvcKey(services[ret'.vsID].options)].dests

\* The calls of the operation that are AddDestPort calls.
AddDestPortCalls == {i \in 1..Len(calls') : calls'[i].fn = "AddDestPort"}

\* The operation made one AddDestPort call, for the backend being created,
\* with the MaxWeight of the service and (when the kernel took it) its
\* forwarding method.
OneAddDestPort ==
    /\ Cardinality(AddDestPortCalls) = 1
    /\ \A i \in AddDestPortCalls :
          /\ calls'[i].svc = SvcKey(services[ret'.vsID].options)
          /\ calls'[i].dest = <<ret'.arg.Host, ret'.arg.Port>>
          /\ calls'[i].weight = services[ret'.vsID].options.MaxWeight
          /\ calls'[i].ok =>
                ipvs'[calls'[i].svc].dests[calls'[i].dest] =
                    [weight |-> services[ret'.vsID].options.MaxWeight,
                     fwd |-> services[ret'.vsID].options.methodID]

\* On success the backend is in the map of its service and its probe runs.
RegisteredOnSuccess ==
    ret'.err = NoErr
    => /\ Live(services', <<ret'.vsID, ret'.rsID>>)
       /\ BackendAt(services', <<ret'.vsID, ret'.rsID>>).options.Host = ret'.arg.Host
       /\ BackendAt(services', <<ret'.vsID, ret'.rsID>>).options.Port = ret'.arg.Port
       /\ probes'[<<ret'.vsID, ret'.rsID>>] = probes[<<ret'.vsID, ret'.rsID>>] + 1

C19_UpdateBackendReturnsPrior ==
    [][ret'.op = "UpdateBackend"
        => /\ ~Live(services, <<ret'.vsID, ret'.rsID>>)
              => /\ Is(ret'.err, ErrObjectNotFound)
                 /\ calls' = <<>>
                 /\ services' = services /\ ipvs' = ipvs
           /\ Live(services, <<ret'.vsID, ret'.rsID>>)
              => /\ Len(calls') = 1
                 /\ calls'[1].fn = "UpdateDestPort"
                 /\ calls'[1].weight = ret'.weight
                 /\ calls'[1].ok
                    => /\ ret'.err = NoErr
                       /\ ret'.prev = BackendAt(services, <<ret'.vsID, ret'.rsID>>).options.weight
                       /\ Live(services', <<ret'.vsID, ret'.rsID>>)
                       /\ BackendAt(services', <<ret'.vsID, ret'.rsID>>).options.weight = ret'.weight
                       /\ DestOf(services', ipvs', <<ret'.vsID, ret'.rsID>>).weight = ret'.weight
           /\ events' = <<>>
           /\ probes' = probes]_vars

\* UpdateBackend returned a weight other than the one it set.
C19_Witness ==
    /\ ret.op = "UpdateBackend" /\ ret.err = NoErr
    /\ ret.prev # ret.weight
    /\ Len(calls) = 1 /\ calls[1].ok
    /\ Live(services, <<ret.vsID, ret.rsID>>)
    /\ BackendAt(services, <<ret.vsID, ret.rsID>>).options.weight = ret.weight

\* The events of the operation that are ev events of src.
EventsOf(ev, src) == {i \in 1..Len(events') : events'[i].ev = ev /\ events'[i].src = src}

\* C20: RemoveService on a service of the map whose DelService call succeeds
\* returns no error, takes the service and every backend of it out of the
\* map, stops the probe of each of these backends once, and calls
\* Disco.Remove(vsID) once, after the DelService call; GetService and
\* GetBackend for the service then return ObjectNotFound.
C20_RemoveServiceRemovesAll ==
    [][(/\ ret'.op = "RemoveService"
        /\ ret'.vsID \in DOMAIN services
        /\ Len(calls') > 0 /\ calls'[1].ok)
        => /\ ret'.err = NoErr
           /\ Len(calls') = 1 /\ calls'[1].fn = "DelService"
           /\ calls'[1].svc = SvcKey(services[ret'.vsID].options)
           /\ DOMAIN services' = DOMAIN services \ {ret'.vsID}
           /\ \A rsID \in RsIDs :
                 /\ ~Live(services', <<ret'.vsID, rsID>>)
                 /\ Is(GetBackend(services', ret'.vsID, rsID).err, ErrObjectNotFound)
                 /\ IF rsID \in DOMAIN services[ret'.vsID].backends
                    THEN /\ Cardinality(EventsOf("Stop", <<ret'.vsID, rsID>>)) = 1
                         /\ probes[<<ret'.vsID, rsID>>] > 0
                            => probes'[<<ret'.vsID, rsID>>] = probes[<<ret'.vsID, rsID>>] - 1
                    ELSE /\ EventsOf("Stop", <<ret'.vsID, rsID>>) = {}
                         /\ probes'[<<ret'.vsID, rsID>>] = probes[<<ret'.vsID, rsID>>]
           /\ GetService(services', ret'.vsID).err = ErrObjectNotFound
           /\ Cardinality(EventsOf("Remove", <<ret'.vsID, "">>)) = 1
           /\ \A i \in EventsOf("Remove", <<ret'.vsID, "">>) : events'[i].calls = 1
           /\ \A i \in 1..Len(events') : events'[i].src[1] = ret'.vsID]_vars

\* RemoveService removed a service with its two backends: two probes were
\* stopped and Disco.Remove was called after them.
C20_Witness ==
    /\ ret.op = "RemoveService" /\ ret.err = NoErr
    /\ Len(calls) = 1 /\ calls[1].ok
    /\ ret.vsID \notin DOMAIN services
    /\ Len(events) = 3
    /\ events[1].ev = "Stop" /\ events[2].ev = "Stop" /\ events[3].ev = "Remove"
    /\ \A rsID \in RsIDs : probes[<<ret.vsID, rsID>>] = 0

\* The DelService calls of the operation.
DelServiceCalls == {i \in 1..Len(calls') : calls'[i].fn = "DelService"}

Range(seq) == {seq[i] : i \in 1..Len(seq)}
NoDup(seq) == Cardinality(Range(seq)) = Len(seq)

\* The services that are running and desired.
InBoth(desired) == DOMAIN services \cap DOMAIN desired

\* The desired backends <<vsID, rsID>> of the services vs that no running
\* backend matches.
Unmatched(desired, vs) ==
    {src \in vs \X RsIDs : src[2] \in DOMAIN desired[src[1]].ServiceBackends /\ ~Live(services, src)}

\* The buckets of sync other than NewBackends are the classification of the
\* running state against desired, and the Status says whether a bucket has
\* an entry.
ClassifiedButNew(sync, desired) ==
    /\ Range(sync.RemovedServices) = DOMAIN services \ DOMAIN desired
    /\ Range(sync.UpdatedServices) =
          {vsID \in InBoth(desired) :
              ~CompareStoreOptions(services[vsID].options, desired[vsID].ServiceOptions)}
    /\ Range(sync.RemovedBackends) =
          {src \in InBoth(desired) \X RsIDs :
              Live(services, src) /\ src[2] \notin DOMAIN desired[src[1]].ServiceBackends}
    /\ Range(sync.UpdatedBackends) =
          {src \in InBoth(desired) \X RsIDs :
              /\ Live(services, src) /\ src[2] \in DOMAIN desired[src[1]].ServiceBackends
              /\ ~BackendCompareStoreOptions(BackendAt(services, src).options,
                                             desired[src[1]].ServiceBackends[src[2]])}
    /\ Range(sync.NewServices) = DOMAIN desired \ DOMAIN services
    /\ NoDup(sync.RemovedServices) /\ NoDup(sync.UpdatedServices) /\ NoDup(sync.RemovedBackends)
    /\ NoDup(sync.UpdatedBackends) /\ NoDup(sync.NewServices)
    /\ sync.Status \in {"need sync", "ok"}
    /\ sync.Status = "need sync" <=>
          \/ Len(sync.RemovedServices) > 0 \/ Len(sync.UpdatedServices) > 0
          \/ Len(sync.RemovedBackends) > 0 \/ Len(sync.UpdatedBackends) > 0
          \/ Len(sync.NewServices) > 0 \/ Len(sync.NewBackends) > 0

\* NewBackends has one entry for each of the backends srcs, under its rsID.
NewBackendsAre(sync, srcs) ==
    /\ Len(sync.NewBackends) = Cardinality(srcs)
    /\ \A rsID \in RsIDs :
          Cardinality({i \in 1..Len(sync.NewBackends) : sync.NewBackends[i][2] = rsID})
             = Cardinality({src \in srcs : src[2] = rsID})

\* StoreSyncStatus leaves the Context and the kernel table as they are.
ComparedOnly ==
    /\ services' = services /\ ipvs' = ipvs /\ probes' = probes /\ stash' = stash
    /\ calls' = <<>> /\ events' = <<>>

\* C22 as stated: CompareWith(desired) lists in RemovedServices the running
\* services that desired lacks, in UpdatedServices those whose options
\* differ from the desired ones, in RemovedBackends and UpdatedBackends the
\* running backends of a service that is also desired which that desired
\* service lacks or has with other options, in NewBackends every desired
\* backend and in NewServices every desired service that no running one
\* matches; Status is "need sync" exactly when a bucket has an entry; the
\* running state is unchanged.
C22_AsStated ==
    [][ret'.op = "StoreSyncStatus"
        => /\ ClassifiedButNew(ret'.arg.syncStatus, ret'.arg.desired)
           /\ NewBackendsAre(ret'.arg.syncStatus,
                             Unmatched(ret'.arg.desired, DOMAIN ret'.arg.desired))
           /\ ComparedOnly]_vars

\* C22, amended: the same, but NewBackends lists the unmatched desired
\* backends of the services that are running and desired only; the
\* backends of a service in NewServices are not listed.
C22_CompareWithClassifies ==
    [][ret'.op = "StoreSyncStatus"
        => /\ ClassifiedButNew(ret'.arg.syncStatus, ret'.arg.desired)
           /\ NewBackendsAre(ret'.arg.syncStatus,
                             Unmatched(ret'.arg.desired, InBoth(ret'.arg.desired)))
           /\ ComparedOnly]_vars

\* A comparison that filled the backend buckets of one service and the
\* service buckets of another: vsA runs with rs1 on a port other than the
\* desired one and without the desired rs2, vsB runs and is not desired.
C22_Witness ==
    /\ ret.op = "StoreSyncStatus"
    /\ ret.arg.syncStatus.Status = "need sync"
    /\ ret.arg.syncStatus.UpdatedBackends = <<(<<"vsA", "rs1">>)>>
    /\ ret.arg.syncStatus.NewBackends = <<(<<"", "rs2">>)>>
    /\ ret.arg.syncStatus.RemovedServices = <<"vsB">>
    /\ ret.arg.syncStatus.UpdatedServices = <<>>

\* C23: in every reachable running state, CompareWith applied to a
\* snapshot of that state (the same vsIDs with the same options, the same
\* rsIDs with the same Host and Port) answers Status "ok" with the six
\* buckets empty.
C23_SnapshotRoundTrip ==
    [][ret'.op = "CompareWith"
        => /\ ret'.arg.desired = Snapshot(services)
           /\ ret'.arg.syncStatus = [EmptySyncStatus EXCEPT !.Status = "ok"]
           /\ services' = services]_vars

\* CompareWith answered "ok" for the snapshot of two services, one with the
\* options Validate completed and a backend whose weight is not the one of
\* the snapshot.
C23_Witness ==
    /\ ret.op = "CompareWith"
    /\ ret.arg.syncStatus.Status = "ok"
    /\ DOMAIN services = VsIDs
    /\ services["vsA"].options.MaxWeight = 100
    /\ services["vsA"].options.Protocol = "tcp"
    /\ Live(services, <<"vsA", "rs1">>)
    /\ BackendAt(services, <<"vsA", "rs1">>).options.weight
          # ret.arg.desired["vsA"].ServiceBackends["rs1"].weight

\* The running backend src is in desired, under its service, with its Host
\* and Port.
DesiredAsIs(desired, src) ==
    /\ Live(services, src)
    /\ src[1] \in DOMAIN desired
    /\ src[2] \in DOMAIN desired[src[1]].ServiceBackends
    /\ BackendAt(services, src).options.Host = desired[src[1]].ServiceBackends[src[2]].Host
    /\ BackendAt(services, src).options.Port = desired[src[1]].ServiceBackends[src[2]].Port

\* The operation left the backend src alone: it is in the map as it was,
\* weight and metrics included, its probe runs on, and no driver call named
\* its destination or removed its service.
LeftAlone(src) ==
    /\ Live(services', src)
    /\ BackendAt(services', src) = BackendAt(services, src)
    /\ probes'[src] = probes[src]
    /\ \A i \in 1..Len(events') : ~(events'[i].ev = "Stop" /\ events'[i].src = src)
    /\ \A i \in 1..Len(calls') :
          calls'[i].svc = SvcKey(services[src[1]].options)
          => /\ calls'[i].fn # "DelService"
             /\ calls'[i].dest # DestKey(BackendAt(services, src).options)

\* CompareWith does not list src in UpdatedBackends.
NotUpdated(src) ==
    \A i \in 1..Len(ret'.arg.syncStatus.UpdatedBackends) :
       ret'.arg.syncStatus.UpdatedBackends[i] # src

\* C24 as stated: whatever weight UpdateBackend and the notification loop
\* gave a backend, CompareWith does not list it in UpdatedBackends and
\* Synchronize neither removes nor re-creates it, as long as its Host and
\* Port are the desired ones.
C24_AsStated ==
    [][\A src \in Sources :
          /\ (ret'.op = "StoreSyncStatus" /\ DesiredAsIs(ret'.arg.desired, src)) => NotUpdated(src)
          /\ (ret'.op = "Synchronize" /\ DesiredAsIs(ret'.arg.desired, src)) => LeftAlone(src)]_vars

\* C24, amended: the same for CompareWith; Synchronize neither removes nor
\* re-creates the backend as long as its Host and Port are the desired ones
\* and the options of its service compare equal to the desired ones (a
\* service whose options differ is removed and created again, its backends
\* with it).
C24_WeightIsNotDesiredState ==
    [][\A src \in Sources :
          /\ (ret'.op = "StoreSyncStatus" /\ DesiredAsIs(ret'.arg.desired, src)) => NotUpdated(src)
          /\ (/\ ret'.op = "Synchronize"
              /\ DesiredAsIs(ret'.arg.desired, src)
              /\ CompareStoreOptions(services[src[1]].options,
                                     ret'.arg.desired[src[1]].ServiceOptions))
             => LeftAlone(src)]_vars

\* Synchronize returned without error and kept a backend that the loop had
\* taken down: its weight is 0, its stash entry holds the weight it had.
C24_Witness ==
    /\ ret.op = "Synchronize" /\ ret.err = NoErr
    /\ Live(services, <<"vsA", "rs1">>)
    /\ "vsA" \in DOMAIN ret.arg.desired
    /\ "rs1" \in DOMAIN ret.arg.desired["vsA"].ServiceBackends
    /\ BackendAt(services, <<"vsA", "rs1">>).options.weight = 0
    /\ <<"vsA", "rs1">> \in DOMAIN stash
    /\ calls = <<>>

\* The cycle was abandoned: Synchronize was not called, and the services,
\* their backends, the probes and the kernel table are as they were.
Abandoned ==
    /\ ~ret'.arg.synchronized
    /\ calls' = <<>> /\ events' = <<>>
    /\ services' = services /\ ipvs' = ipvs /\ probes' = probes /\ stash' = stash

\* C25 as stated: whenever List on the store answers with an error,
\* Store.Sync abandons the cycle.
C25_AsStated ==
    [][(ret'.op = "Store.Sync" /\ ret'.arg.list # NoErr) => Abandoned]_vars

\* C25, amended: whenever List on the store answers with an error other
\* than ErrKeyNotFound, Store.Sync abandons the cycle; on ErrKeyNotFound
\* the store counts as empty and Synchronize is called with nothing
\* desired.
C25_ListErrorAbandonsCycle ==
    [][ret'.op = "Store.Sync"
        => /\ ret'.arg.list \notin {NoErr, ErrKeyNotFound}
              => (Abandoned /\ ret'.err = ret'.arg.list)
           /\ ret'.arg.list = ErrKeyNotFound
              => (ret'.arg.synchronized /\ ret'.arg.desired = EmptyMap)
           /\ (ret'.arg.list = ErrKeyNotFound /\ ret'.err = NoErr) => services' = EmptyMap]_vars

\* A cycle that a later one retried: Store.Sync created vsA from the store
\* right after a cycle abandoned on a List error.
C25_Witness ==
    /\ ret.op = "Store.Sync"
    /\ ret.arg.list = NoErr /\ ret.arg.synchronized /\ ret.err = NoErr
    /\ ret.arg.before = [op |-> "Store.Sync", err |-> ErrList]
    /\ DOMAIN services = {"vsA"}
    /\ Len(calls) > 0

\* C26: CreateService with valid options and a fresh vsID, when none of its
\* driver calls fails, returns no error and leaves the service in the map
\* and in the kernel table, and RemoveService of a service of the map, when
\* its DelService call succeeds, returns no error and leaves the map
\* without the service, whether or not the Disco call and the netlink call
\* of the operation failed.
C26_SideEffectFailuresDropped ==
    [][/\ (/\ ret'.op = "CreateService"
           /\ Validate(ret'.arg.ServiceOptions, endpoint).err = NoErr
           /\ ret'.vsID \notin DOMAIN services
           /\ \A i \in 1..Len(calls') : calls'[i].ok)
          => /\ ret'.err = NoErr
             /\ ret'.vsID \in DOMAIN services'
             /\ SvcKey(services'[ret'.vsID].options) \in DOMAIN ipvs'
             /\ Cardinality(EventsOf("Expose", <<ret'.vsID, "">>)) = 1
             /\ Cardinality(EventsOf("AddrAdd", <<ret'.vsID, "">>)) = 1
       /\ (/\ ret'.op = "RemoveService"
           /\ ret'.vsID \in DOMAIN services
           /\ \A i \in 1..Len(calls') : calls'[i].ok)
          => /\ ret'.err = NoErr
             /\ ret'.vsID \notin DOMAIN services'
             /\ Cardinality(EventsOf("Remove", <<ret'.vsID, "">>)) = 1]_vars

\* CreateService succeeded although Disco.Expose and netlink.AddrAdd failed.
C26_Witness ==
    /\ ret.op = "CreateService" /\ ret.err = NoErr
    /\ ret.vsID \in DOMAIN services
    /\ Len(events) = 2
    /\ events[1].ev = "AddrAdd" /\ ~events[1].ok
    /\ events[2].ev = "Expose" /\ ~events[2].ok
    /\ \A i \in 1..Len(calls) : calls[i].ok

Mask(ShFlags) ==
    UNION {schedulerFlags[t] : t \in Range(Split(ShFlags)) \cap DOMAIN schedulerFlags}

\* The step is a CreateService with valid options for a vsID the map does
\* not have and a service the kernel table does not have.
FreshInKernel ==
    /\ ret'.op = "CreateService"
    /\ Validate(ret'.arg.ServiceOptions, endpoint).err = NoErr
    /\ ret'.vsID \notin DOMAIN services
    /\ SvcKey(Validate(ret'.arg.ServiceOptions, endpoint).o) \notin DOMAIN ipvs

\* The calls of the operation that add a service.
AddServiceCalls == {i \in 1..Len(calls') : calls'[i].fn \in {"AddService", "AddServiceWithFlags"}}

\* The operation made one call to add the service of its options:
\* AddServiceWithFlags when the mask of ShFlags has a bit, AddService when
\* it has none, and the kernel service has the mask when the call succeeded.
OneAddService ==
    /\ Cardinality(AddServiceCalls) = 1
    /\ \A i \in AddServiceCalls :
          /\ calls'[i].svc = SvcKey(Validate(ret'.arg.ServiceOptions, endpoint).o)
          /\ calls'[i].fn = IF Mask(ret'.arg.ServiceOptions.ShFlags) # {}
                            THEN "AddServiceWithFlags" ELSE "AddService"
          /\ calls'[i].ok
             => /\ ipvs'[calls'[i].svc].Flags = Mask(ret'.arg.ServiceOptions.ShFlags)
                /\ ipvs'[calls'[i].svc].Sched = Validate(ret'.arg.ServiceOptions, endpoint).o.LbMethod

\* The operation called Disco.Expose once, after the add call, with the
\* vsID, the resolved host and the port.
OneExpose ==
    /\ Cardinality(EventsOf("Expose", <<ret'.vsID, "">>)) = 1
    /\ \A i \in EventsOf("Expose", <<ret'.vsID, "">>) :
          /\ events'[i].arg = <<Validate(ret'.arg.ServiceOptions, endpoint).o.host,
                                ret'.arg.ServiceOptions.Port>>
          /\ \A j \in AddServiceCalls : events'[i].calls >= j

\* C28 as stated: CreateService for a fresh vsID whose service the kernel
\* table does not have makes exactly one call to add it,
\* AddServiceWithFlags with the OR of the bits of the ShFlags tokens when
\* that mask is not zero and AddService when it is, and calls
\* Disco.Expose(vsID, resolved host, port) exactly once.
C28_AsStated ==
    [][FreshInKernel => (OneAddService /\ OneExpose)]_vars

\* C28, amended: the same add call; Disco.Expose is called exactly once
\* when the add call succeeds, and when it fails CreateService returns
\* SyscallFailed without calling Disco.Expose and without the service in
\* the map.
C28_OneAddCallThenExpose ==
    [][FreshInKernel
        => /\ OneAddService
           /\ \A i \in AddServiceCalls :
                 IF calls'[i].ok THEN OneExpose /\ ret'.vsID \in DOMAIN services'
                 ELSE /\ EventsOf("Expose", <<ret'.vsID, "">>) = {}
                      /\ ret'.err = ErrIpvsSyscallFailed
                      /\ services' = services]_vars

\* CreateService added a service with the two bits of "sh-port|sh-fallback"
\* by AddServiceWithFlags, and exposed it.
C28_Witness ==
    /\ ret.op = "CreateService" /\ ret.err = NoErr
    /\ ret.arg.ServiceOptions.ShFlags = "sh-port|sh-fallback"
    /\ Len(calls) = 2 /\ calls[2].fn = "AddServiceWithFlags" /\ calls[2].ok
    /\ ipvs[calls[2].svc].Flags = {"SCHED1", "SCHED2"}
    /\ Len(events) = 1 /\ events[1].ev = "Expose" /\ events[1].arg = <<"vip1", 80>>

\* The first unknown value of the options, in the order Validate looks at
\* them, after the defaults and the lowercasing.
FirstUnknown(o) ==
    CASE ToLower(o.Protocol) \notin {"", "tcp", "udp"} -> ErrUnknownProtocol
      [] o.ShFlags # "" /\ Range(Split(o.ShFlags)) \ DOMAIN schedulerFlags # {} -> ErrUnknownFlag
      [] o.Fallback # "" /\ Range(Split(o.Fallback)) \ DOMAIN fallbackFlags # {} -> ErrUnknownFallbackFlag
      [] ToLower(o.FwdMethod) \notin {"", "dr", "nat", "tunnel", "ipip"} -> ErrUnknownMethod
      [] OTHER -> NoErr

\* A CreateService whose options have an unknown value returns the error of
\* that value and installs nothing.
UnknownRejected ==
    /\ ret'.op = "CreateService"
    /\ FirstUnknown(ret'.arg.ServiceOptions) # NoErr
    => /\ ret'.err = FirstUnknown(ret'.arg.ServiceOptions)
       /\ services' = services

\* Every service of the map has enumerated options.
InstalledEnumerated ==
    \A vsID \in DOMAIN services :
       /\ services[vsID].options.Protocol \in {"tcp", "udp"}
       /\ services[vsID].options.ShFlags # ""
          => Range(Split(services[vsID].options.ShFlags)) \subseteq DOMAIN schedulerFlags
       /\ services[vsID].options.Fallback \in {"fb-default", "fb-zero-to-one"}
       /\ services[vsID].options.FwdMethod \in {"nat", "dr", "tunnel", "ipip"}
       /\ services[vsID].options.MaxWeight >= 1

\* C29: validation accepts only the enumerated values: an unknown ShFlags
\* token, an unknown Fallback, an unknown Protocol and an unknown FwdMethod
\* each make Validate return its own error, the four errors being distinct,
\* so every service of the map has Protocol tcp or udp, every ShFlags token
\* in the table, Fallback fb-default or fb-zero-to-one, FwdMethod nat, dr,
\* tunnel or ipip, and MaxWeight at least 1.
C29_OnlyEnumeratedValues ==
    /\ [][UnknownRejected]_vars
    /\ [](Cardinality({ErrUnknownProtocol, ErrUnknownFlag, ErrUnknownFallbackFlag, ErrUnknownMethod}) = 4)
    /\ []InstalledEnumerated

\* The operations the REST handlers call.
RestOps == {"CreateService", "CreateBackend", "RemoveService", "RemoveBackend", "GetService", "GetBackend"}

\* C30: on the REST surface every ObjectNotFound error of a Context
\* operation (unknown vsID or unknown rsID, in create, remove or get) is
\* answered with not-found, every ObjectExists error (duplicate vsID or
\* duplicate rsID) with conflict and every SyscallFailed with
\* internal-server-error; only other errors are answered with bad-request.
C30_ErrorsMapToStatus ==
    [][ret'.op \in RestOps /\ ret'.err # NoErr
        => /\ Is(ret'.err, ErrObjectNotFound) => Response(ret') = StatusNotFound
           /\ Is(ret'.err, ErrObjectExists) => Response(ret') = StatusConflict
           /\ Is(ret'.err, ErrIpvsSyscallFailed) => Response(ret') = StatusInternalServerError
           /\ Response(ret') = StatusBadRequest
              => /\ ~Is(ret'.err, ErrObjectNotFound)
                 /\ ~Is(ret'.err, ErrObjectExists)
                 /\ ~Is(ret'.err, ErrIpvsSyscallFailed)]_vars

\* C31: every read of the services map is made with the Context lock held,
\* by the mutators, Synchronize, the readers, the Exporter's collection and
\* Close, so that no task writes the map while another task reads or
\* ranges over it without the lock: while a range over the map goes on, no
\* step of another task adds a service to the map or deletes one from it.
C31_LockDiscipline ==
    [][ranging.on => DOMAIN services' = DOMAIN services]_vars

\* The step is the UpdateBackend of processPulseUpdate, for an update
\* whose backend has left the map since its metrics were cached.
UpdateAfterRemoval ==
    /\ pc \in {"up", "downUpdate"} /\ pc' = "idle"
    /\ ~Live(services, u.Source)

\* The step is a receive of an update whose backend is not in the map.
ReceiveAfterRemoval ==
    /\ ret'.op = "processPulseUpdate"
    /\ ~Live(services, <<ret'.vsID, ret'.rsID>>)

\* C32: the notification loop releases the Context lock between caching
\* the metrics of an update and calling UpdateBackend; when a RemoveBackend,
\* a RemoveService or a Synchronize has removed the backend in between,
\* UpdateBackend returns ObjectNotFound and makes no UpdateDestPort call, a
\* Down update puts no entry in the stash and an entry the stash has stays
\* as it is, until a later update of the same source drops it.
C32_RemovalInTheWindow ==
    [][/\ UpdateAfterRemoval
          => /\ ret'.op \in {"PulseUp", "PulseDown"}
             /\ Is(ret'.err, ErrObjectNotFound)
             /\ calls' = <<>>
             /\ stash' = stash
             /\ services' = services /\ ipvs' = ipvs
       /\ ReceiveAfterRemoval
          => <<ret'.vsID, ret'.rsID>> \notin DOMAIN stash']_vars

\* A Down update whose backend was removed after its metrics were cached
\* got ObjectNotFound from UpdateBackend, and the stash still has the entry
\* of an earlier Down update.
C32_Witness ==
    /\ ret.op = "PulseDown" /\ Is(ret.err, ErrObjectNotFound)
    /\ calls = <<>>
    /\ <<ret.vsID, ret.rsID>> \in DOMAIN stash
    /\ ~Live(services, <<ret.vsID, ret.rsID>>)

\* C33: the notification channel is unbounded for the senders: the send
\* of a probe task is over without waiting for the notification loop to
\* receive the update, so no probe task is blocked in its send while the
\* loop is busy with an update or has yet to get the Context lock.
C33_SendNeverWaits ==
    sending # {} => pc = "idle"

\* C34: a Down update never overwrites an entry of the stash.  When the
\* stash holds a value for the source of a Down update being processed,
\* UpdateBackend is called with the weight of any Down update (0, or 1
\* under fb-zero-to-one with no healthy backend), which on success is the
\* one UpdateDestPort call made and the weight of the backend in the map,
\* and the stash after the update equals the stash before.
C34_DownKeepsStashEntry ==
    [][(pc = "downUpdate" /\ ret'.op = "PulseDown" /\ u.Source \in DOMAIN stash)
        => /\ stash' = stash
           /\ ret'.weight = backendWeight
           /\ ret'.err = NoErr
                => /\ Len(calls') = 1
                   /\ calls'[1].fn = "UpdateDestPort"
                   /\ calls'[1].weight = backendWeight
                   /\ services'[u.Source[1]].backends[u.Source[2]].options.weight = backendWeight]_vars

\* A Down update arrived during a partial recovery: UpdateBackend returned
\* the partial weight, the stash still holds the older weight.
C34_Witness ==
    /\ ret.op = "PulseDown" /\ ret.err = NoErr
    /\ <<ret.vsID, ret.rsID>> \in DOMAIN stash
    /\ stash[<<ret.vsID, ret.rsID>>] > ret.prev
    /\ ret.prev > ret.weight

\* C35: an Up update for a live backend with no stash entry only overwrites
\* the cached metrics of the backend: processPulseUpdate returns to the
\* select having made no IPVS call, the kernel table, the stash and the
\* rest of the map (the weight of the backend included, also one set
\* through UpdateBackend) are as before.
C35_UpWithoutStashEntry ==
    [][\A src \in Sources :
        (/\ pc = "idle" /\ ret'.op = "processPulseUpdate"
         /\ <<ret'.vsID, ret'.rsID>> = src
         /\ ret'.arg.Metrics.Status = "Up"
         /\ Live(services, src)
         /\ src \notin DOMAIN stash)
        => /\ calls' = <<>>
           /\ ipvs' = ipvs
           /\ stash' = stash
           /\ pc' = "idle"
           /\ services' = [services EXCEPT ![src[1]].backends[src[2]].metrics = ret'.arg.Metrics]]_vars

\* An Up update was processed for a live backend without a stash entry
\* whose weight UpdateBackend had set below the MaxWeight of the service.
C35_Witness ==
    /\ ret.op = "processPulseUpdate"
    /\ ret.arg.Metrics.Status = "Up" /\ ~ret.arg.stashed
    /\ Live(services, <<ret.vsID, ret.rsID>>)
    /\ services[ret.vsID].backends[ret.rsID].metrics = ret.arg.Metrics
    /\ services[ret.vsID].backends[ret.rsID].options.weight
         < services[ret.vsID].options.MaxWeight

(***************************************************************************)
(* The order of the steps of Synchronize (C36).                            *)
(***************************************************************************)
\* The kernel key of the service the desired options describe.
DesiredKey(options) == SvcKey(Validate(options, endpoint).o)

\* The services running before the step that the store lists with other
\* options, and the services the store lists that are not running.
Outdated(desired) ==
    {vsID \in DOMAIN services \cap DOMAIN desired :
        ~CompareStoreOptions(services[vsID].options, desired[vsID].ServiceOptions)}
NewServices(desired) == DOMAIN desired \ DOMAIN services

\* The calls of the step that add a service with the key k.
AddCalls(k) ==
    {i \in 1..Len(calls') : calls'[i].fn \in {"AddService", "AddServiceWithFlags"} /\ calls'[i].svc = k}

\* The running service vsID is dealt with before the call i of the step: a
\* successful DelService when the store does not list it or lists it with
\* other options, and otherwise a successful DelDestPort for each backend
\* the store does not list or lists with other options.
DealtWith(vsID, desired, i) ==
    IF vsID \notin DOMAIN desired \/ vsID \in Outdated(desired)
    THEN \E j \in 1..(i - 1) :
            /\ calls'[j].fn = "DelService" /\ calls'[j].ok
            /\ calls'[j].svc = SvcKey(services[vsID].options)
    ELSE \A rsID \in DOMAIN services[vsID].backends :
            (\/ rsID \notin DOMAIN desired[vsID].ServiceBackends
             \/ ~BackendCompareStoreOptions(services[vsID].backends[rsID].options,
                                            desired[vsID].ServiceBackends[rsID]))
            => \E j \in 1..(i - 1) :
                  /\ calls'[j].fn = "DelDestPort" /\ calls'[j].ok
                  /\ calls'[j].svc = SvcKey(services[vsID].options)
                  /\ calls'[j].dest = DestKey(services[vsID].backends[rsID].options)

\* C36: within one Synchronize, a running service whose options differ from
\* the desired ones is replaced by removeService, then createService with
\* the desired config: the first call for it is DelService on its key, on
\* whose failure Synchronize returns, and a call that adds the service with
\* the desired key comes after a successful DelService.  A service that
\* was not running when Synchronize started is added only after every
\* service running at the start has been removed, replaced or had its
\* backends reconciled, and no call for a service running at the start
\* follows.
C36_SynchronizeOrder ==
    [][ret'.op = "Synchronize" =>
        /\ \A vsID \in Outdated(ret'.arg.desired) :
              \A i \in AddCalls(DesiredKey(ret'.arg.desired[vsID].ServiceOptions)) :
                 \E j \in 1..(i - 1) :
                    /\ calls'[j].fn = "DelService" /\ calls'[j].ok
                    /\ calls'[j].svc = SvcKey(services[vsID].options)
                    /\ calls'[j + 1].fn = "GetPools"
                    /\ i \in {j + 1, j + 2}
        /\ \A i \in 1..Len(calls') :
              (calls'[i].fn = "DelService" /\ ~calls'[i].ok)
                 => i = Len(calls') /\ ret'.err = ErrIpvsSyscallFailed
        /\ \A vsID \in NewServices(ret'.arg.desired) :
              \A i \in AddCalls(DesiredKey(ret'.arg.desired[vsID].ServiceOptions)) :
                 /\ \A old \in DOMAIN services : DealtWith(old, ret'.arg.desired, i)
                 /\ \A j \in (i + 1)..Len(calls') :
                       calls'[j].svc \notin {SvcKey(services[old].options) : old \in DOMAIN services}]_vars

\* Synchronize has replaced vsA, whose options differed, with a DelService
\* and an AddService, and has then added vsB, which was not running.
C36_Witness ==
    /\ ret.op = "Synchronize" /\ ret.err = NoErr
    /\ "vsA" \in DOMAIN ret.arg.running /\ "vsB" \notin DOMAIN ret.arg.running
    /\ {"vsA", "vsB"} \subseteq DOMAIN ret.arg.desired
    /\ \E i, j, k \in 1..Len(calls) :
          /\ i < j /\ j < k
          /\ calls[i].fn = "DelService" /\ calls[i].ok
          /\ calls[j].fn = "AddService" /\ calls[j].ok
          /\ calls[j].svc = DesiredKey(ret.arg.desired["vsA"].ServiceOptions)
          /\ calls[j].svc # calls[i].svc
          /\ calls[k].fn = "AddService" /\ calls[k].ok
          /\ calls[k].svc = DesiredKey(ret.arg.desired["vsB"].ServiceOptions)

(***************************************************************************)
(* Synchronize without failures (C38).                                     *)
(***************************************************************************)
\* Every service config of desired passes Validate, and so does every
\* backend config.
ValidDesired(desired) ==
    \A vsID \in DOMAIN desired :
       /\ Validate(desired[vsID].ServiceOptions, endpoint).err = NoErr
       /\ \A rsID \in DOMAIN desired[vsID].ServiceBackends :
             BackendValidate(desired[vsID].ServiceBackends[rsID]).err = NoErr

\* C38: Synchronize returns without error when every desired config is
\* valid and every kernel call it made succeeded, also when the options of
\* a running service differ from the desired ones and the desired config
\* lists backends, and when the options of a running backend differ.
C38_SynchronizeSucceeds ==
    (/\ ret.op = "Synchronize"
     /\ ValidDesired(ret.arg.desired)
     /\ \A i \in 1..Len(calls) : calls[i].ok)
    => ret.err = NoErr

(***************************************************************************)
(* Idempotence of Synchronize (C39).                                       *)
(***************************************************************************)
\* The step made no call that changes the kernel table, started or stopped
\* no probe and left the services map as it was.
NothingDone ==
    /\ \A i \in 1..Len(calls') : calls'[i].fn = "GetPools"
    /\ probes' = probes
    /\ services' = services

\* C39: reconciliation is idempotent.  A Synchronize that follows with the
\* same desired state a Synchronize that returned without error makes no
\* Add, Del or Update call, starts or stops no probe and leaves the map
\* unchanged; and so does a Synchronize with a desired state for which
\* CompareWith reports "ok".
C39_SynchronizeIdempotent ==
    [][/\ (/\ ret.op = "Synchronize" /\ ret.err = NoErr
           /\ ret'.op = "Synchronize" /\ ret'.arg.desired = ret.arg.desired)
          => NothingDone
       /\ (/\ ret'.op = "Synchronize"
           /\ CompareWith(services, ret'.arg.desired).Status = "ok")
          => NothingDone]_vars

(***************************************************************************)
(* The weight in the map and the weight in the kernel (C40).               *)
(***************************************************************************)
\* C40: for every backend of the map, the weight held in memory is the
\* weight last written to the kernel for its destination: the weight of
\* AddDestPort after CreateBackend, of UpdateDestPort after a successful
\* UpdateBackend.
C40_WeightMatchesKernel ==
    \A vsID \in DOMAIN services : \A rsID \in DOMAIN services[vsID].backends :
       LET k == SvcKey(services[vsID].options)
           d == DestKey(services[vsID].backends[rsID].options)
       IN (k \in DOMAIN ipvs /\ d \in DOMAIN ipvs[k].dests)
            => services[vsID].backends[rsID].options.weight = ipvs[k].dests[d].weight

(***************************************************************************)
(* The end of the notification loop (C37).                                 *)
(***************************************************************************)
ProcessingOps == {"processPulseUpdate", "GetService", "PulseUp", "PulseDown"}

\* C37: once the stop signal is triggered the notification loop eventually
\* returns, under fair scheduling.  It returns from its select only, so an
\* update being processed is processed to its end, and after it has
\* returned it processes no update.
C37_LoopStops ==
    /\ (stopCh ~> pc = "returned")
    /\ [][pc' = "returned" => (pc = "returned" \/ (pc = "idle" /\ stopCh))]_vars
    /\ [][pc = "returned"
            => /\ pc' = "returned"
               /\ stash' = stash /\ u' = u
               /\ ~(ret'.op \in ProcessingOps /\ ret' # ret)]_vars

\* run has returned on the stop signal.
C37_Witness ==
    /\ stopCh
    /\ pc = "returned"
    /\ ret.op = "run"

\* The stop signal was triggered while an update was being processed.
StopDuringUpdate ==
    stopCh /\ pc \in {"up", "down", "downUpdate"}

====
